---- MODULE Spec2Model ----
(***************************************************************************)
(* Job orchestration engine of the RKNN model conversion daemon.           *)
(*                                                                         *)
(* Modelled from src/: main.py (configuration), server/api_server.py (the  *)
(* handlers that call the task manager), convertor/converter_worker.py and *)
(* convertor/converter.py (the executor run inside a worker slot) and      *)
(* utils/config.py (ConversionTask, output path derivation).               *)
(* task_manager.py (TaskManager, TaskInfo, TaskStatus) is imported by      *)
(* these files but is not among them: the scheduler, the queue, the worker *)
(* slots and the history scan are modelled from spec.md sections 4.2-4.4   *)
(* and 5.                                                                  *)
(*                                                                         *)
(* Strings are sequences of tokens; concatenation is \o; the empty string  *)
(* and None are both <<>> (both are falsy in the Python tests modelled).   *)
(***************************************************************************)
EXTENDS Integers, Sequences, FiniteSets, TLC

\* ------------------------------------------------------------------ bounds
\* Number of execution slots of the task manager's pool.
NumSlots == 2

\* The task ids clients name (a uuid4 is an id of this set not yet tracked).
TaskIds == {"t1", "t2"}
Slots == 1..NumSlots
NoJob == "-"
None == <<>>

\* Values of --workers that are tried (main.py; the default is 4).
WorkersArgs == {1, 2}

\* Priorities a submission can carry (int(task_data.get("priority", 0))).
Priorities == {0, 5}

\* ServerConfig.output_folder default, and another value of --output-dir.
DefaultOutputFolder == <<"./outputs">>
OutputFolders == {DefaultOutputFolder, <<"/data/out">>}

\* Saved upload paths: upload_folder / <uuid><ext>.
PrimaryFiles == {<<"./uploads", "/", "u1", ".onnx">>}

\* Texts str(e) of the exceptions the environment can raise; "" is the text
\* of an exception raised without arguments.
ExcTexts == {<<>>, <<"boom">>}

\* Output artifacts a previous process lifetime may have left in the
\* configured output folder: <model name>_<task id>.rknn.
PriorArtifacts == {<<"old", "_", "t1", ".rknn">>}

VARIABLES
    max_workers,    \* ServerConfig.max_workers, from --workers
    output_folder,  \* ServerConfig.output_folder, from --output-dir
    tasks,          \* task manager: task id -> TaskInfo
    queue,          \* task manager: ids waiting for a slot, best first
    slots,          \* task manager: the worker slots
    stopping,       \* task manager: stop() has begun
    response,       \* the last answer an API call returned
    fault,          \* environment: the fault it can inject in this run
    uploaded_files, \* analyzer: the FileInfo list of one upload
    model_groups,   \* analyzer: the ModelFiles list it was organized into
    validation,     \* analyzer: the last validate_model_files call
    analyzer_pc,    \* analyzer: "idle", "uploaded", "grouped", "validated"
    request,        \* API server: the request handled last
    reply,          \* API server: the HTTP answer to that request
    rknn_config,    \* API server: the RKNNConverterConfig built for it
    daemon          \* main.py: the daemon, its main coroutine and stop tasks

analyzer_vars == <<uploaded_files, model_groups, validation, analyzer_pc>>

api_vars == <<request, reply, rknn_config, daemon>>

scheduler_vars == <<max_workers, output_folder, tasks, queue, slots, stopping,
                    response, fault>>

vars == <<max_workers, output_folder, tasks, queue, slots, stopping, response,
          fault, uploaded_files, model_groups, validation, analyzer_pc,
          request, reply, rknn_config, daemon>>

\* ------------------------------------------------------------------ main.py

\* The signals main() registers signal_handler for; the process receives
\* each of them at most once.
Signals == {"SIGINT", "SIGTERM"}

\* The daemon main() has just made, with the signal handlers registered:
\* main is the place of the main coroutine ("main": about to await
\* daemon.start(); "api_start": suspended in APIServer.start after
\* task_manager.start(); "serving": in the sleep loop of start();
\* "returned": main() is over, by return or by SystemExit; "exited": asyncio
\* .run has cancelled what was left and closed the loop), task_manager what
\* was called on the task manager, api_stops the number of calls of
\* APIServer.stop, and stops where the task signal_handler made for a signal
\* is: "none" (not made), "scheduled" (made, not yet run), "api_stop"
\* (suspended in `await self.api_server.stop()`), "done" (returned),
\* "cancelled" (cancelled by asyncio.run while suspended there) or "dropped"
\* (cancelled before it ran).
NewDaemon ==
    [main |-> "main", running |-> FALSE, api_server |-> FALSE,
     task_manager |-> "idle", start_failed |-> FALSE, api_stops |-> 0,
     stops |-> [sig \in Signals |-> "none"]]

\* The daemon while it serves requests.
Serving ==
    [NewDaemon EXCEPT !.main = "serving", !.running = TRUE,
                      !.api_server = TRUE, !.task_manager = "started"]

\* RKNNConverterDaemon.stop up to its first suspension: nothing when the
\* daemon is not running; otherwise running is cleared and, when there is an
\* API server, APIServer.stop is called, which calls task_manager.stop().
stop(d) ==
    IF ~d.running
    THEN d
    ELSE IF d.api_server
    THEN [d EXCEPT !.running = FALSE, !.api_stops = @ + 1,
                   !.task_manager = "stop_called"]
    ELSE [d EXCEPT !.running = FALSE]

\* The variables the daemon's steps leave alone; stopping follows the calls
\* of task_manager.stop().
DaemonStep ==
    /\ stopping' = (daemon'.task_manager \in {"stop_called", "stopped"})
    /\ UNCHANGED <<analyzer_vars, request, reply, rknn_config, max_workers,
                   output_folder, tasks, queue, slots, response, fault>>

\* RKNNConverterDaemon.start up to the first suspension inside
\* APIServer.start: the directories, the APIServer object, and
\* task_manager.start().
DaemonStart ==
    /\ daemon.main = "main"
    /\ daemon' = [daemon EXCEPT !.main = "api_start", !.api_server = TRUE,
                                !.task_manager = "started"]
    /\ DaemonStep

\* start(), `except Exception`: await self.stop(), then sys.exit(1); the
\* SystemExit leaves main() through its finally, which awaits stop() again.
start_except(d) ==
    [stop(stop(d)) EXCEPT !.main = "returned", !.start_failed = TRUE]

\* The rest of APIServer.start raises (runner.setup(), or site.start() when
\* the address cannot be bound).
ServerFails ==
    /\ daemon.main = "api_start"
    /\ daemon' = start_except(daemon)
    /\ DaemonStep

\* APIServer.start returns: running is set and start() sleeps in its loop.
ServerUp ==
    /\ daemon.main = "api_start"
    /\ daemon' = [daemon EXCEPT !.main = "serving", !.running = TRUE]
    /\ DaemonStep

\* signal_handler: asyncio.create_task(daemon.stop()).
Signal(sig) ==
    /\ daemon.main \in {"main", "api_start", "serving"}
    /\ daemon.stops[sig] = "none"
    /\ daemon' = [daemon EXCEPT !.stops[sig] = "scheduled"]
    /\ DaemonStep

\* The event loop runs a task made by signal_handler, once the main
\* coroutine is suspended: stop() returns at once, or gets to
\* task_manager.stop() and waits there (for the drain of the executions in
\* flight; StopTaskFinish may follow at once).
StopTaskRun(sig) ==
    /\ daemon.main \in {"api_start", "serving", "returned"}
    /\ daemon.stops[sig] = "scheduled"
    /\ daemon' =
          IF ~daemon.running \/ ~daemon.api_server
          THEN [stop(daemon) EXCEPT !.stops[sig] = "done"]
          ELSE [stop(daemon) EXCEPT !.stops[sig] = "api_stop"]
    /\ DaemonStep

\* task_manager.stop() returns to the task suspended in it, and stop()
\* returns.
StopTaskFinish(sig) ==
    /\ daemon.main \in {"api_start", "serving", "returned"}
    /\ daemon.stops[sig] = "api_stop"
    /\ daemon' = [daemon EXCEPT !.stops[sig] = "done",
                                !.task_manager = "stopped"]
    /\ DaemonStep

\* asyncio.sleep(1) is over and running is cleared: start() returns, the
\* finally of main() awaits stop(), and main() returns.
MainWake ==
    /\ daemon.main = "serving"
    /\ ~daemon.running
    /\ daemon' = [stop(daemon) EXCEPT !.main = "returned"]
    /\ DaemonStep

\* asyncio.run after main(): the tasks that are not done are cancelled and
\* the loop is closed.
LoopShutdown ==
    /\ daemon.main = "returned"
    /\ daemon' =
          [daemon EXCEPT !.main = "exited",
              !.stops = [sig \in Signals |->
                            CASE daemon.stops[sig] = "api_stop" -> "cancelled"
                              [] daemon.stops[sig] = "scheduled" -> "dropped"
                              [] OTHER -> daemon.stops[sig]]]
    /\ DaemonStep

\* ------------------------------------------------------- utils/config.py

\* os.path.basename: the tokens after the last "/".
RECURSIVE basename(_)
basename(p) ==
    IF \E i \in 1..Len(p) : p[i] = "/"
    THEN basename(Tail(p))
    ELSE p

IsExt(tok) == tok \in {".onnx", ".tflite", ".prototxt", ".pb", ".cfg", ".rknn"}

\* os.path.splitext(...)[0]: drop a final extension that is not the whole name.
splitext_root(name) ==
    IF Len(name) > 1 /\ IsExt(name[Len(name)])
    THEN SubSeq(name, 1, Len(name) - 1)
    ELSE name

\* ModelFiles.get_model_name
get_model_name(primary_file) == splitext_root(basename(primary_file))

\* os.path.join(folder, filename)
path_join(folder, filename) == folder \o <<"/">> \o filename

\* ConversionTask.get_output_path
get_output_path(task, folder) ==
    IF task.output_path # None
    THEN task.output_path
    ELSE path_join(folder,
                   get_model_name(task.primary_file)
                       \o <<"_", task.task_id, ".rknn">>)

\* ------------------------------------------- convertor/converter_worker.py

\* A (success, value) pair returned by a call; raised is TRUE when the call
\* ended by an exception escaping it instead of returning.
Returned(ok, value) == [raised |-> FALSE, ok |-> ok, value |-> value]
Raised(text) == [raised |-> TRUE, ok |-> FALSE, value |-> text]

\* A mutation of convert_except: convert has no handler, the exception
\* leaves it.
convert_reraises(text) == Raised(text)

\* ConverterWorker.convert, the handler of its try block:
\* except Exception as e -> (False, "Exception occurred during conversion: e")
convert_except(text) ==
    Returned(FALSE, <<"Exception occurred during conversion: ">> \o text)

\* ConverterWorker._perform_conversion, the handler of its try block.
_perform_conversion_except(text) ==
    Returned(FALSE, <<"Conversion execution failed: ">> \o text)

\* ConverterWorker.convert up to the dispatch, for a prefix outcome other than
\* "dispatched": the pair convert returns.
convert_prefix(outcome, text) ==
    CASE outcome = "invalid" ->
            Returned(FALSE, <<"Input file validation failed">>)
      [] outcome = "validate_raises" -> convert_except(text)
      [] outcome = "prepare_raises" -> convert_except(text)
      [] outcome = "dispatch_raises" -> _perform_conversion_except(text)

\* ConverterWorker._convert_sync, the handler of its try block.
_convert_sync_except(text) ==
    Returned(FALSE, <<"Conversion process exception: ">> \o text)

\* ConverterWorker._convert_sync after converter.convert returned (False, e):
\* return False, str(error)
_convert_sync_failed(text) == Returned(FALSE, text)

\* What the environment does to one stage run in the pool thread.
\*   "ok"             the stage succeeds
\*   "fails"          the stage raises inside RKNNConverter.convert, which
\*                    releases and returns (False, e)
\*   "raises"         an exception reaches _convert_sync's own handler: the
\*                    stage raises outside RKNNConverter.convert's handlers,
\*                    or inside one and rknn.release() in the handler raises
StageOutcomes == {"ok", "fails", "raises"}

\* The stages of _convert_sync and RKNNConverter.convert, in program order,
\* and the progress each reports when it succeeds.
\*   "t10"     logger.info("Loading model..."); _update_progress(10)
\*   "create"  temp copies, RKNNConverter(...); _update_progress(30)
\*   "load"    load_model();            progress_callback(30)
\*   "build"   rknn.build();            progress_callback(60)
\*   "export"  rknn.export_rknn();      progress_callback(90)
\*   "release" rknn.release(); _cleanup_temp_files(); progress_callback(100)
NextStage(pc) ==
    CASE pc = "t10" -> "create"
      [] pc = "create" -> "load"
      [] pc = "load" -> "build"
      [] pc = "build" -> "export"
      [] pc = "export" -> "release"
      [] pc = "release" -> "sync_done"

\* A mutation of StageProgress: 100 is reported when the export is done,
\* before rknn.release() and the clean-up.
StageProgressDoneAtExport(pc) ==
    CASE pc = "t10" -> 10
      [] pc = "create" -> 30
      [] pc = "load" -> 30
      [] pc = "build" -> 60
      [] pc = "export" -> 100
      [] pc = "release" -> 100

StageProgress(pc) ==
    CASE pc = "t10" -> 10
      [] pc = "create" -> 30
      [] pc = "load" -> 30
      [] pc = "build" -> 60
      [] pc = "export" -> 90
      [] pc = "release" -> 100

ThreadStages == {"t10", "create", "load", "build", "export", "release"}

\* Outcomes the environment can give a stage: "t10" only logs and reports;
\* "create" and "release" run outside RKNNConverter.convert's own handlers.
OutcomesOf(pc) ==
    CASE pc = "t10" -> {"ok"}
      [] pc \in {"create", "release"} -> {"ok", "raises"}
      [] OTHER -> StageOutcomes

\* The faults of the environment: where it strikes, how, and with which text.
\* One run of the system sees one kind of fault, struck any number of times.
\* The "prefix" is the part of ConverterWorker.convert that runs before the
\* thread-pool dispatch: _validate_input (which refuses, "invalid", or
\* raises), _prepare_output_path and loop.run_in_executor (which raise).
NoFault == [stage |-> "none", outcome |-> "ok", text |-> None]

FaultPlans ==
    {NoFault}
    \cup {[stage |-> "prefix", outcome |-> o, text |-> None] :
             o \in {"invalid"}}
    \cup {[stage |-> "prefix", outcome |-> o, text |-> t] :
             o \in {"validate_raises", "prepare_raises", "dispatch_raises"},
             t \in ExcTexts}
    \cup UNION {{[stage |-> pc, outcome |-> o, text |-> t] :
                   o \in OutcomesOf(pc) \ {"ok"}, t \in ExcTexts} :
                pc \in ThreadStages}

\* The pair _convert_sync returns when stage pc ends it.
_convert_sync(pc, outcome, text) ==
    CASE outcome = "ok" -> Returned(TRUE, None)
      [] outcome = "fails" -> _convert_sync_failed(text)
      [] outcome = "raises" -> _convert_sync_except(text)

\* ConverterWorker.convert after _perform_conversion returned sync:
\* (True, output_path) on success, (False, error) otherwise.
convert_tail(sync, output_path) ==
    IF sync.ok THEN Returned(TRUE, output_path) ELSE Returned(FALSE, sync.value)

\* ConverterWorker._prepare_output_path: the folder is that of
\* DEFAULT_SERVER_CONFIG, whatever the server was configured with.
_prepare_output_path(task) == get_output_path(task, DefaultOutputFolder)

\* ------------------------------------------------ task manager (spec.md)

\* A mutation of NewTaskInfo: the admitted job is marked running at once.
NewTaskInfoRunning(id, primary_file, priority, seq) ==
    [task_id |-> id, primary_file |-> primary_file, output_path |-> None,
     priority |-> priority, seq |-> seq, status |-> "running",
     progress |-> 0, error_message |-> None, result_path |-> None,
     is_historical |-> FALSE, claims |-> 0]

\* TaskInfo of a job admitted by add_task: status Pending.
NewTaskInfo(id, primary_file, priority, seq) ==
    [task_id |-> id, primary_file |-> primary_file, output_path |-> None,
     priority |-> priority, seq |-> seq, status |-> "pending",
     progress |-> 0, error_message |-> None, result_path |-> None,
     is_historical |-> FALSE, claims |-> 0]

\* History scan: the task id an artifact name <model>_<id>.rknn carries.
ArtifactId(artifact) == artifact[Len(artifact) - 1]

ArtifactModel(artifact) == SubSeq(artifact, 1, Len(artifact) - 3)

\* A mutation of HistoricalTaskInfo: the record is created like a new job's.
HistoricalTaskInfoPending(artifact, folder) ==
    [task_id |-> ArtifactId(artifact),
     primary_file |-> <<"<Historical Task-">> \o ArtifactModel(artifact)
                          \o <<">">>,
     output_path |-> None, priority |-> 0, seq |-> 0,
     status |-> "pending", progress |-> 0, error_message |-> None,
     result_path |-> path_join(folder, artifact),
     is_historical |-> TRUE, claims |-> 0]

\* History scan: the read-only record synthesized for one artifact.
HistoricalTaskInfo(artifact, folder) ==
    [task_id |-> ArtifactId(artifact),
     primary_file |-> <<"<Historical Task-">> \o ArtifactModel(artifact)
                          \o <<">">>,
     output_path |-> None, priority |-> 0, seq |-> 0,
     status |-> "completed", progress |-> 100, error_message |-> None,
     result_path |-> path_join(folder, artifact),
     is_historical |-> TRUE, claims |-> 0]

\* History scan at start(): one record per artifact found, keyed by id.
ScanHistory(artifacts, folder) ==
    [id \in {ArtifactId(a) : a \in artifacts} |->
        HistoricalTaskInfo(CHOOSE a \in artifacts : ArtifactId(a) = id, folder)]

Tracked == DOMAIN tasks

Terminal(st) == st \in {"completed", "failed", "cancelled"}

\* Queue order: higher priority first, then earlier arrival.
Before(a, b) ==
    \/ a.priority > b.priority
    \/ a.priority = b.priority /\ a.seq < b.seq

\* A mutation of Enqueue: plain arrival order.
EnqueueFifo(q, id, ts) == Append(q, id)

\* The queue with id inserted at its place in the order.
RECURSIVE Enqueue(_, _, _)
Enqueue(q, id, ts) ==
    IF q = <<>> THEN <<id>>
    ELSE IF Before(ts[id], ts[Head(q)]) THEN <<id>> \o q
    ELSE <<Head(q)>> \o Enqueue(Tail(q), id, ts)

\* The faults tried where the claims are about scheduling: a refused input
\* and a failing export.
SchedFaults ==
    {[stage |-> "prefix", outcome |-> "invalid", text |-> None],
     [stage |-> "export", outcome |-> "fails", text |-> <<"boom">>]}

FreeSlot == [job |-> NoJob, pc |-> "idle", abandoned |-> FALSE,
             struck |-> FALSE, ret |-> Returned(FALSE, None)]

\* No validate_model_files call has been made.
NoValidation == [bundle |-> <<>>, missing |-> {}, ok |-> FALSE, reason |-> <<>>]

\* No request has been handled: nothing answered, no configuration built.
NoRequest == [op |-> "none"]

NoReply == [status |-> 0, error |-> <<>>, task_id |-> NoJob,
            output_path |-> None, file |-> None]

NoConfig == <<>>

\* The answer of an API call: the operation and whether it succeeded.
Answer(op, ok) == [op |-> op, ok |-> ok]

NoResponse == Answer("none", FALSE)

\* The state after main() built the configuration from the command line and
\* APIServer.start() started the task manager, which scanned the output
\* folder for the artifacts of earlier lifetimes.
SchedulerStarted(folders, faults, artifact_sets) ==
    /\ max_workers \in WorkersArgs
    /\ output_folder \in folders
    /\ \E found \in artifact_sets :
          tasks = ScanHistory(found, output_folder)
    /\ queue = <<>>
    /\ slots = [s \in Slots |-> FreeSlot]
    /\ stopping = FALSE
    /\ response = NoResponse
    /\ fault \in faults
    /\ request = NoRequest
    /\ reply = NoReply
    /\ rknn_config = NoConfig
    /\ daemon = Serving

\* The same, with no upload under analysis.
Started(folders, faults, artifact_sets) ==
    /\ SchedulerStarted(folders, faults, artifact_sets)
    /\ uploaded_files = <<>>
    /\ model_groups = <<>>
    /\ validation = NoValidation
    /\ analyzer_pc = "idle"

\* Default output folder, with and without artifacts of an earlier lifetime.
Init == Started({DefaultOutputFolder}, SchedFaults, SUBSET PriorArtifacts)

\* Every output folder and every fault, after a restart that found the
\* artifact of task t1 (so that one more job can be admitted).
InitWorker == Started(OutputFolders, FaultPlans, {PriorArtifacts})

\* A mutation of add_task_accepts: admissions go on after stop() began.
add_task_accepts_while_stopping(id) == id \notin Tracked

\* A mutation of add_task_accepts: a tracked id is accepted again.
add_task_accepts_tracked(id) == ~stopping

\* task_manager.add_task accepts the task: its id is not tracked and stop()
\* has not begun; otherwise it fails (DuplicateId).
add_task_accepts(id) == ~stopping /\ id \notin Tracked

\* Arrival sequence number of the next admitted job.
NextSeq == Cardinality({id \in Tracked : ~tasks[id].is_historical}) + 1

\* APIServer.upload_and_create_task from "Generate task ID" on: the task id is
\* the caller's task_id field, or a uuid4 (an id no tracked job has); the task
\* is handed to task_manager.add_task; an exception answers with an error.
upload_and_create_task(id, primary_file, priority) ==
    /\ IF add_task_accepts(id)
       THEN /\ tasks' = (id :> NewTaskInfo(id, primary_file, priority, NextSeq))
                            @@ tasks
            /\ queue' = Enqueue(queue, id, tasks')
            /\ response' = Answer("create", TRUE)
       ELSE /\ UNCHANGED <<tasks, queue>>
            /\ response' = Answer("create", FALSE)
    /\ UNCHANGED <<analyzer_vars, api_vars, max_workers, output_folder, slots, stopping, fault>>

\* A mutation of Cancellable: a running job is cancelled at once too.
CancellableAlsoRunning(st) == st \in {"pending", "running"}

\* A mutation of Cancellable: every job that is not running is cancelled.
CancellableNotRunning(st) == st # "running"

\* The statuses in which cancel_task cancels the job at once.
Cancellable(st) == st = "pending"

\* APIServer.cancel_task -> task_manager.cancel_task: a Pending job becomes
\* Cancelled; for a Running job the request is advisory and has no effect on
\* the execution (the answer is not specified, either is allowed); anything
\* else is refused. The answer is 200 ("ok") when cancel_task returned true
\* and 400 ("error") when it returned false.
cancel_task(id) ==
    /\ IF id \in Tracked /\ Cancellable(tasks[id].status)
       THEN /\ tasks' = [tasks EXCEPT ![id].status = "cancelled"]
            /\ UNCHANGED slots
            /\ response' = Answer("cancel", TRUE)
       ELSE IF id \in Tracked /\ tasks[id].status = "running"
       THEN /\ UNCHANGED <<tasks, slots>>
            /\ \E ok \in BOOLEAN : response' = Answer("cancel", ok)
       ELSE /\ UNCHANGED <<tasks, slots>>
            /\ response' = Answer("cancel", FALSE)
    /\ UNCHANGED <<analyzer_vars, api_vars, max_workers, output_folder, queue, stopping, fault>>

\* A mutation of Eligible: the status of the queue entry is not looked at.
EligibleWhateverStatus(id) == ~tasks[id].is_historical

\* A job the worker loop may take from the queue and run.
Eligible(id) == tasks[id].status = "pending" /\ ~tasks[id].is_historical

\* A mutation of Claim: the slot runs the head of the queue without taking
\* the entry out and without looking at the job's status.
ClaimWithoutDequeue(s) ==
    /\ ~stopping
    /\ slots[s].job = NoJob
    /\ queue # <<>>
    /\ tasks' = [tasks EXCEPT ![Head(queue)].status = "running",
                              ![Head(queue)].claims = @ + 1]
    /\ slots' = [slots EXCEPT ![s] = [FreeSlot EXCEPT !.job = Head(queue),
                                                      !.pc = "convert"]]
    /\ UNCHANGED <<analyzer_vars, api_vars, max_workers, output_folder, queue, stopping, response,
                   fault>>

\* Worker loop of slot s: take the head of the queue; run it if it is still
\* eligible, drop the entry otherwise.
Claim(s) ==
    /\ ~stopping
    /\ slots[s].job = NoJob
    /\ queue # <<>>
    /\ queue' = Tail(queue)
    /\ \/ /\ Eligible(Head(queue))
          /\ tasks' = [tasks EXCEPT ![Head(queue)].status = "running",
                                    ![Head(queue)].claims = @ + 1]
          /\ slots' = [slots EXCEPT ![s] = [FreeSlot EXCEPT
                                              !.job = Head(queue),
                                              !.pc = "convert"]]
       \/ /\ ~Eligible(Head(queue))
          /\ UNCHANGED <<tasks, slots>>
    /\ UNCHANGED <<analyzer_vars, api_vars, max_workers, output_folder, stopping, response, fault>>

\* What the environment may do at a stage in this run: let it succeed, or
\* strike with the run's fault when the stage is the fault's.
EnvOutcomes(stage) ==
    IF fault.stage = stage THEN {"ok", fault.outcome} ELSE {"ok"}

\* ConverterWorker.convert from its start to the await of the pool thread.
ConvertStart(s) ==
    /\ slots[s].pc = "convert"
    /\ \E outcome \in {IF o = "ok" THEN "dispatched" ELSE o :
                           o \in EnvOutcomes("prefix")} :
          slots' = [slots EXCEPT ![s] =
              IF outcome = "dispatched"
              THEN [@ EXCEPT !.pc = "t10"]
              ELSE [@ EXCEPT !.pc = "returned", !.struck = TRUE,
                             !.ret = convert_prefix(outcome, fault.text)]]
    /\ UNCHANGED <<analyzer_vars, api_vars, max_workers, output_folder, tasks, queue, stopping, response, fault>>

\* A mutation of _update_progress: a report of 100 marks the job completed.
_update_progress_marks_done(ts, id, progress) ==
    [ts EXCEPT ![id].progress = progress,
               ![id].status = IF progress = 100 THEN "completed" ELSE @]

\* ConverterWorker._update_progress: written to the TaskInfo unconditionally.
_update_progress(ts, id, progress) == [ts EXCEPT ![id].progress = progress]

\* One stage of _convert_sync in the pool thread of slot s.
ThreadStep(s) ==
    /\ slots[s].pc \in ThreadStages
    /\ \E outcome \in EnvOutcomes(slots[s].pc) :
          IF outcome = "ok"
          THEN /\ tasks' = _update_progress(tasks, slots[s].job,
                                            StageProgress(slots[s].pc))
               /\ slots' = [slots EXCEPT
                     ![s].pc = NextStage(slots[s].pc),
                     ![s].ret = IF NextStage(slots[s].pc) = "sync_done"
                                THEN _convert_sync(slots[s].pc, outcome, fault.text)
                                ELSE @]
          ELSE /\ slots' = [slots EXCEPT
                     ![s].pc = "sync_done",
                     ![s].struck = TRUE,
                     ![s].ret = _convert_sync(slots[s].pc, outcome, fault.text)]
               /\ UNCHANGED tasks
    /\ UNCHANGED <<analyzer_vars, api_vars, max_workers, output_folder, queue, stopping, response, fault>>

\* The pair ConverterWorker.convert hands back to the slot.
ConvertResult(s) ==
    IF slots[s].pc = "returned"
    THEN slots[s].ret
    ELSE convert_tail(slots[s].ret, _prepare_output_path(tasks[slots[s].job]))

\* The slot's handling of what convert handed back: Completed with the
\* result path, or Failed with the message; an exception is caught at the
\* slot boundary. The slot is free afterwards.
ApplyResult(ts, id, r) ==
    IF ~r.raised /\ r.ok
    THEN [ts EXCEPT ![id].status = "completed", ![id].result_path = r.value]
    ELSE [ts EXCEPT ![id].status = "failed", ![id].error_message = r.value]

SlotFinish(s) ==
    /\ slots[s].pc \in {"returned", "sync_done"}
    /\ tasks' = IF slots[s].abandoned
                THEN tasks
                ELSE ApplyResult(tasks, slots[s].job, ConvertResult(s))
    /\ slots' = [slots EXCEPT ![s] = FreeSlot]
    /\ UNCHANGED <<analyzer_vars, api_vars, max_workers, output_folder, queue, stopping, response, fault>>

ShutdownReason == <<"shutdown">>

InFlight(id) == \E s \in Slots : slots[s].job = id /\ ~slots[s].abandoned

\* task_manager.stop(): no more admissions and no more claims. Under the
\* drain policy the executions in flight run to their end; otherwise they
\* are abandoned: their jobs end Failed with a shutdown reason, while the
\* pool threads themselves run on.
Stop ==
    /\ ~stopping
    /\ stopping' = TRUE
    /\ \/ UNCHANGED <<tasks, slots>>
       \/ /\ \E id \in Tracked : InFlight(id)
          /\ tasks' = [id \in Tracked |->
                IF InFlight(id)
                THEN [tasks[id] EXCEPT !.status = "failed",
                                       !.error_message = ShutdownReason]
                ELSE tasks[id]]
          /\ slots' = [s \in Slots |->
                IF slots[s].job # NoJob
                THEN [slots[s] EXCEPT !.abandoned = TRUE]
                ELSE slots[s]]
    /\ UNCHANGED <<analyzer_vars, api_vars, max_workers, output_folder, queue, response, fault>>

Next ==
    \/ \E id \in TaskIds, f \in PrimaryFiles, p \in Priorities :
          upload_and_create_task(id, f, p)
    \/ \E id \in TaskIds : cancel_task(id)
    \/ \E s \in Slots : Claim(s)
    \/ \E s \in Slots : ConvertStart(s)
    \/ \E s \in Slots : ThreadStep(s)
    \/ \E s \in Slots : SlotFinish(s)
    \/ Stop

Spec == Init /\ [][Next]_vars

SpecWorker == InitWorker /\ [][Next]_vars

\* A first lifetime (no history) with a failing export, for what eventually
\* happens: the event loop keeps running the coroutine of every slot and the
\* pool keeps running its threads, so a step of an execution that can be
\* taken is taken.
InitStop ==
    Started({DefaultOutputFolder},
            {[stage |-> "export", outcome |-> "fails", text |-> <<"boom">>]},
            {{}})

SpecStop ==
    /\ InitStop
    /\ [][Next]_vars
    /\ \A s \in Slots :
          /\ WF_vars(ConvertStart(s))
          /\ WF_vars(ThreadStep(s))
          /\ WF_vars(SlotFinish(s))

\* get(id) / list(): the tracked records, live and historical alike.
get_all_tasks == {tasks[id] : id \in Tracked}

TypeOK ==
    /\ max_workers \in WorkersArgs
    /\ Tracked \subseteq TaskIds
    /\ \A s \in Slots : slots[s].job \in TaskIds \cup {NoJob}
    /\ \A id \in Tracked : tasks[id].status \in
          {"pending", "running", "completed", "failed", "cancelled"}
    /\ stopping \in BOOLEAN

\* ------------------------------------------------ utils/model_analyzer.py

\* Largest number of files in one upload that is tried.
MaxFiles == 4

\* A FileInfo: filepath is the saved path <<id, extension>>, name the
\* characters of the original name before its extension (os.path.splitext),
\* extension the lower-cased extension of the original name.
FileInfo(id, name, extension) ==
    [filepath |-> <<id, extension>>, name |-> name, extension |-> extension]

\* str.lower() of an extension.
lower_ext(ext) ==
    CASE ext = ".PROTOTXT" -> ".prototxt"
      [] ext = ".CAFFEMODEL" -> ".caffemodel"
      [] ext = ".CFG" -> ".cfg"
      [] ext = ".WEIGHTS" -> ".weights"
      [] ext = ".ONNX" -> ".onnx"
      [] OTHER -> ext

\* The FileInfo of a file uploaded under the original name name + ext:
\* upload_and_create_task saves it as <<id, ext>>, the extension as it was
\* sent, and analyze_uploaded_files lower-cases ext for FileInfo.extension.
UploadedFile(id, name, ext) ==
    [filepath |-> <<id, ext>>, name |-> name, extension |-> lower_ext(ext)]

\* The files an upload is drawn from.
FilePool ==
    {FileInfo("p01", <<"n", "e", "t">>, ".prototxt"),
     FileInfo("p02", <<"n", "e", "t">>, ".caffemodel"),
     FileInfo("p03", <<"n", "e", "t", "x">>, ".caffemodel"),
     FileInfo("p04", <<"z", "z">>, ".caffemodel"),
     FileInfo("p05", <<"q", "q">>, ".caffemodel"),
     FileInfo("p06", <<"m">>, ".pb"),
     FileInfo("p07", <<"m">>, ".index"),
     FileInfo("p08", <<"m">>, ".data-00000-of-00001"),
     FileInfo("p09", <<"x">>, ".onnx"),
     FileInfo("p10", <<"r">>, ".txt"),
     FileInfo("p11", <<"y">>, ".cfg"),
     FileInfo("p12", <<"y">>, ".weights")}

\* Files for the fuzzy match: a candidate that shares the keyword vgg with
\* vgg.prototxt, one whose name is only contained in it, one that matches
\* nothing, and a second .prototxt.
KeywordPool ==
    {FileInfo("p13", <<"v", "g", "g">>, ".prototxt"),
     FileInfo("p14", <<"v", "g", "g", "x">>, ".caffemodel"),
     FileInfo("p15", <<"g">>, ".caffemodel"),
     FileInfo("p04", <<"z", "z">>, ".caffemodel"),
     FileInfo("p01", <<"n", "e", "t">>, ".prototxt"),
     FileInfo("p09", <<"x">>, ".onnx")}

\* Files of the checkpoint family: an index and a data shard of base name m,
\* two .meta files of that base name (uploaded under the same original name,
\* saved under two paths), and an index file of another base name.
CheckpointPool ==
    {FileInfo("p07", <<"m">>, ".index"),
     FileInfo("p08", <<"m">>, ".data-00000-of-00001"),
     FileInfo("p16", <<"m">>, ".meta"),
     FileInfo("p17", <<"m">>, ".meta"),
     FileInfo("p18", <<"k">>, ".index"),
     FileInfo("p09", <<"x">>, ".onnx")}

\* Files sent under names with upper-case extensions, and net.caffemodel.
UpperCasePool ==
    {UploadedFile("p19", <<"N", "E", "T">>, ".PROTOTXT"),
     UploadedFile("p20", <<"N", "E", "T">>, ".CAFFEMODEL"),
     UploadedFile("p02", <<"n", "e", "t">>, ".caffemodel"),
     UploadedFile("p21", <<"y">>, ".CFG"),
     UploadedFile("p22", <<"y">>, ".WEIGHTS"),
     UploadedFile("p23", <<"x">>, ".ONNX")}

\* The lists of distinct files of a pool, in every order.
Lists(pool) ==
    {u \in UNION {[1..n -> pool] : n \in 0..MaxFiles} :
        \A i, j \in DOMAIN u : i # j => u[i] # u[j]}

\* The uploads: lists of distinct files of one of the pools.
Uploads ==
    Lists(FilePool) \cup Lists(KeywordPool) \cup Lists(CheckpointPool)
    \cup Lists(UpperCasePool)

\* FileInfo.filename: the original name, as tokens.
filename(f) ==
    IF f.extension = "" THEN f.name ELSE f.name \o <<f.extension>>

\* ModelFiles
ModelFiles(primary_file, secondary_files, additional_files, model_type) ==
    [primary_file |-> primary_file, secondary_files |-> secondary_files,
     additional_files |-> additional_files, model_type |-> model_type]

\* Python's `a in b` for strings: a is a contiguous part of b.
IsSubstr(a, b) ==
    \E i \in 0..(Len(b) - Len(a)) : SubSeq(b, i + 1, i + Len(a)) = a

\* str.lower(), character by character.
lower(name) ==
    [i \in 1..Len(name) |->
        CASE name[i] = "N" -> "n"
          [] name[i] = "Z" -> "z"
          [] OTHER -> name[i]]

Min(a, b) == IF a < b THEN a ELSE b

\* The keywords of _has_common_keywords that can occur in the names tried.
Keywords ==
    {<<"v", "g", "g">>, <<"s", "s", "d">>, <<"y", "o", "l", "o">>,
     <<"r", "e", "s", "n", "e", "t">>}

\* ModelFileAnalyzer._has_common_keywords
_has_common_keywords(name1, name2) ==
    \/ \E keyword \in Keywords :
          IsSubstr(keyword, name1) /\ IsSubstr(keyword, name2)
    \/ \E i \in 0..(Len(name1) - 3) :
          \E j \in 3..(Min(Len(name1) - i + 1, 8) - 1) :
              IsSubstr(SubSeq(name1, i + 1, i + j), name2)

\* The filepaths of the files of a list, in order.
Paths(fs) == [i \in 1..Len(fs) |-> fs[i].filepath]

SeqToSet(q) == {q[i] : i \in 1..Len(q)}

\* The least index of a non-empty set of indices (the first in list order).
First(S) == CHOOSE i \in S : \A j \in S : i <= j

\* ModelFileAnalyzer._find_fuzzy_match: the first unused candidate, in list
\* order, that shares a keyword or substring with the primary or whose name
\* contains or is contained in the primary's; failing that, the only unused
\* candidate if there is exactly one.
_find_fuzzy_match(primary_file, secondary_ext, file_infos, used_files) ==
    LET primary_base == lower(primary_file.name)
        Cand(i) ==
            /\ file_infos[i].extension = secondary_ext
            /\ file_infos[i].filepath \notin used_files
        Hit(i) ==
            /\ Cand(i)
            /\ \/ _has_common_keywords(primary_base, lower(file_infos[i].name))
               \/ IsSubstr(primary_base, lower(file_infos[i].name))
               \/ IsSubstr(lower(file_infos[i].name), primary_base)
        hits == {i \in 1..Len(file_infos) : Hit(i)}
        matching_files == {i \in 1..Len(file_infos) : Cand(i)}
    IN IF hits # {} THEN <<file_infos[First(hits)].filepath>>
       ELSE IF Cardinality(matching_files) = 1
       THEN <<file_infos[First(matching_files)].filepath>>
       ELSE <<>>

\* The accumulator of the passes: the groups found and the used filepaths.
Acc(groups, used_files) == [groups |-> groups, used_files |-> used_files]

\* A mutation of PairOne: the files of a pair found are not marked used.
PairOneKeepsUnused(primary_file, secondary_ext, model_type, file_infos, acc) ==
    LET exact == Paths(SelectSeq(file_infos, LAMBDA f :
                     /\ f.extension = secondary_ext
                     /\ f.filepath \notin acc.used_files
                     /\ f.name = primary_file.name))
        secondary_files ==
            IF exact # <<>> THEN exact
            ELSE _find_fuzzy_match(primary_file, secondary_ext, file_infos,
                                   acc.used_files)
    IN IF secondary_files # <<>>
       THEN Acc(Append(acc.groups,
                       ModelFiles(primary_file.filepath, secondary_files,
                                  <<>>, model_type)),
                acc.used_files)
       ELSE acc

\* ModelFileAnalyzer._find_paired_files, the body of the loop over the
\* primary files: exact base-name matches first, the fuzzy match otherwise;
\* a pair found becomes a group and its files are marked used.
PairOne(primary_file, secondary_ext, model_type, file_infos, acc) ==
    LET exact == Paths(SelectSeq(file_infos, LAMBDA f :
                     /\ f.extension = secondary_ext
                     /\ f.filepath \notin acc.used_files
                     /\ f.name = primary_file.name))
        secondary_files ==
            IF exact # <<>> THEN exact
            ELSE _find_fuzzy_match(primary_file, secondary_ext, file_infos,
                                   acc.used_files)
    IN IF secondary_files # <<>>
       THEN Acc(Append(acc.groups,
                       ModelFiles(primary_file.filepath, secondary_files,
                                  <<>>, model_type)),
                acc.used_files \cup {primary_file.filepath}
                    \cup SeqToSet(secondary_files))
       ELSE acc

RECURSIVE PairLoop(_, _, _, _, _)
PairLoop(primary_files, secondary_ext, model_type, file_infos, acc) ==
    IF primary_files = <<>> THEN acc
    ELSE PairLoop(Tail(primary_files), secondary_ext, model_type, file_infos,
                  PairOne(Head(primary_files), secondary_ext, model_type,
                          file_infos, acc))

\* ModelFileAnalyzer._find_paired_files for one (primary, secondary) pair of
\* extensions: the primary files are listed before the loop.
_find_paired_files(file_infos, model_type, primary_ext, secondary_ext, acc) ==
    PairLoop(SelectSeq(file_infos, LAMBDA f :
                 f.extension = primary_ext /\ f.filepath \notin acc.used_files),
             secondary_ext, model_type, file_infos, acc)

\* group_patterns of the TensorFlow kind.
GroupPatterns == {"checkpoint", ".meta", ".data", ".index"}

\* `pattern in token`, for the tokens names are made of.
TokenHas(tok, pattern) ==
    \/ tok = pattern
    \/ pattern = ".data" /\ tok = ".data-00000-of-00001"

\* _find_grouped_files: pattern in file_info.filename or
\* file_info.extension in pattern (true of an empty extension).
matches_pattern(f) ==
    \E pattern \in GroupPatterns :
        \/ \E i \in 1..Len(filename(f)) : TokenHas(filename(f)[i], pattern)
        \/ f.extension = "" \/ f.extension = pattern

StripSuffix(base_name, suffix) ==
    IF base_name # <<>> /\ base_name[Len(base_name)] = suffix
    THEN SubSeq(base_name, 1, Len(base_name) - 1)
    ELSE base_name

\* ModelFileAnalyzer._extract_base_name: the name without its extension,
\* then without the suffixes, tried in this order.
_extract_base_name(f) ==
    StripSuffix(StripSuffix(StripSuffix(StripSuffix(
        f.name, "-00000-of-00001"), ".data"), ".index"), ".meta")

\* The keys of base_groups in insertion order.
RECURSIVE BaseNames(_, _)
BaseNames(fs, seen) ==
    IF fs = <<>> THEN <<>>
    ELSE IF _extract_base_name(Head(fs)) \in seen
    THEN BaseNames(Tail(fs), seen)
    ELSE <<_extract_base_name(Head(fs))>>
             \o BaseNames(Tail(fs), seen \cup {_extract_base_name(Head(fs))})

IsGraphFile(f) == f.extension \in {".meta", ".pb"}

\* _find_grouped_files, the body of the loop over base_groups: a group of
\* more than one file with a .meta or .pb file (the last one is primary)
\* becomes a ModelFiles and all its files are marked used.
GroupOne(files, model_type, acc) ==
    LET graph == SelectSeq(files, IsGraphFile)
        others == SelectSeq(files, LAMBDA f : ~IsGraphFile(f))
    IN IF Len(files) > 1 /\ graph # <<>>
       THEN Acc(Append(acc.groups,
                       ModelFiles(graph[Len(graph)].filepath, Paths(others),
                                  <<>>, model_type)),
                acc.used_files \cup SeqToSet(Paths(files)))
       ELSE acc

RECURSIVE GroupLoop(_, _, _, _)
GroupLoop(base_names, matched, model_type, acc) ==
    IF base_names = <<>> THEN acc
    ELSE GroupLoop(Tail(base_names), matched, model_type,
                   GroupOne(SelectSeq(matched, LAMBDA f :
                                _extract_base_name(f) = Head(base_names)),
                            model_type, acc))

\* ModelFileAnalyzer._find_grouped_files
_find_grouped_files(file_infos, model_type, acc) ==
    LET matched == SelectSeq(file_infos, LAMBDA f :
                       f.filepath \notin acc.used_files /\ matches_pattern(f))
    IN GroupLoop(BaseNames(matched, {}), matched, model_type, acc)

\* ModelFileAnalyzer._identify_single_file_type
_identify_single_file_type(extension) ==
    CASE extension = ".onnx" -> "onnx"
      [] extension = ".tflite" -> "tflite"
      [] extension \in {".pt", ".pth", ".pytorch"} -> "pytorch"
      [] OTHER -> "unknown"

\* _group_model_files, step 2: every file still unused whose extension is a
\* single-file kind becomes its own group.
SingleFiles(file_infos, acc) ==
    LET singles == SelectSeq(file_infos, LAMBDA f :
                       /\ f.filepath \notin acc.used_files
                       /\ _identify_single_file_type(f.extension) # "unknown")
    IN Acc(acc.groups \o
               [i \in 1..Len(singles) |->
                   ModelFiles(singles[i].filepath, <<>>, <<>>,
                              _identify_single_file_type(singles[i].extension))],
           acc.used_files \cup SeqToSet(Paths(singles)))

\* The filepath of the last file with the extension, None if there is none.
LastWith(file_infos, extension) ==
    LET fs == SelectSeq(file_infos, LAMBDA f : f.extension = extension)
    IN IF fs = <<>> THEN None ELSE fs[Len(fs)].filepath

\* A mutation of ThreeFiles: the first file is taken as the graph file.
ThreeFilesFirstIsPrimary(file_infos) ==
    IF /\ LastWith(file_infos, ".pb") # None
       /\ LastWith(file_infos, ".index") # None
       /\ LastWith(file_infos, ".data-00000-of-00001") # None
    THEN <<ModelFiles(file_infos[1].filepath,
                      <<LastWith(file_infos, ".data-00000-of-00001")>>,
                      <<LastWith(file_infos, ".index")>>, "tensorflow")>>
    ELSE <<>>

\* _group_model_files when len(file_infos) == 3: one TensorFlow group if a
\* .pb, an .index and a .data-00000-of-00001 file are there, and nothing
\* otherwise (the return is reached whatever the three files are).
ThreeFiles(file_infos) ==
    IF /\ LastWith(file_infos, ".pb") # None
       /\ LastWith(file_infos, ".index") # None
       /\ LastWith(file_infos, ".data-00000-of-00001") # None
    THEN <<ModelFiles(LastWith(file_infos, ".pb"),
                      <<LastWith(file_infos, ".data-00000-of-00001")>>,
                      <<LastWith(file_infos, ".index")>>, "tensorflow")>>
    ELSE <<>>

\* A mutation of GeneralPass: the groups are returned in the reverse order,
\* the single files first.
GeneralPassSinglesFirst(file_infos) ==
    LET groups ==
            SingleFiles(file_infos,
                _find_paired_files(file_infos, "darknet", ".cfg", ".weights",
                    _find_grouped_files(file_infos, "tensorflow",
                        _find_paired_files(file_infos, "caffe", ".prototxt",
                                           ".caffemodel",
                                           Acc(<<>>, {}))))).groups
    IN [i \in 1..Len(groups) |-> groups[Len(groups) + 1 - i]]

\* _group_model_files for any other number of files: the multi-file kinds in
\* the order of MULTI_FILE_PATTERNS (Caffe pairs, TensorFlow groups, Darknet
\* pairs), then the single files.
GeneralPass(file_infos) ==
    SingleFiles(file_infos,
        _find_paired_files(file_infos, "darknet", ".cfg", ".weights",
            _find_grouped_files(file_infos, "tensorflow",
                _find_paired_files(file_infos, "caffe", ".prototxt",
                                   ".caffemodel", Acc(<<>>, {}))))).groups

\* ModelFileAnalyzer._group_model_files
_group_model_files(file_infos) ==
    IF Len(file_infos) = 3
    THEN ThreeFiles(file_infos)
    ELSE GeneralPass(file_infos)

\* ModelFileAnalyzer._validate_caffe_files
_validate_caffe_files(model_files) ==
    IF /\ lower_ext(model_files.primary_file[2]) = ".prototxt"
       /\ \A i \in 1..Len(model_files.secondary_files) :
             model_files.secondary_files[i][2] # ".caffemodel"
    THEN Returned(FALSE, <<"Caffe model missing ", ".caffemodel",
                           " weight file">>)
    ELSE Returned(TRUE, <<>>)

\* ModelFileAnalyzer._validate_darknet_files
_validate_darknet_files(model_files) ==
    IF /\ lower_ext(model_files.primary_file[2]) = ".cfg"
       /\ \A i \in 1..Len(model_files.secondary_files) :
             model_files.secondary_files[i][2] # ".weights"
    THEN Returned(FALSE, <<"Darknet model missing ", ".weights",
                           " weight file">>)
    ELSE Returned(TRUE, <<>>)

\* ModelFileAnalyzer._validate_tensorflow_files
_validate_tensorflow_files(model_files) ==
    IF \E p \in {model_files.primary_file}
                   \cup SeqToSet(model_files.secondary_files) :
           lower_ext(p[2]) \in {".pb", ".meta"}
    THEN Returned(TRUE, <<>>)
    ELSE Returned(FALSE, <<"TensorFlow model missing graph definition file ",
                           "(.pb or .meta)">>)

\* ModelFileAnalyzer.validate_model_files; missing is the set of paths for
\* which os.path.exists is false.
validate_model_files(model_files, missing) ==
    LET absent == {i \in 1..Len(model_files.secondary_files) :
                      model_files.secondary_files[i] \in missing}
    IN IF model_files.primary_file \in missing
       THEN Returned(FALSE, <<"Primary file does not exist: ">>
                                \o model_files.primary_file)
       ELSE IF absent # {}
       THEN Returned(FALSE, <<"Auxiliary file does not exist: ">>
                                \o model_files.secondary_files[First(absent)])
       ELSE CASE model_files.model_type = "caffe" ->
                    _validate_caffe_files(model_files)
              [] model_files.model_type = "darknet" ->
                    _validate_darknet_files(model_files)
              [] model_files.model_type = "tensorflow" ->
                    _validate_tensorflow_files(model_files)
              [] OTHER -> Returned(TRUE, <<>>)

\* The model type a caller gives a bundle it builds around a primary file.
TypeOfPrimary(extension) ==
    CASE extension = ".prototxt" -> "caffe"
      [] extension = ".cfg" -> "darknet"
      [] extension \in {".pb", ".meta"} -> "tensorflow"
      [] OTHER -> _identify_single_file_type(extension)

\* The bundles validate_model_files is called with: the first group of the
\* analysis (as upload_and_create_task does), and, for an upload of one or
\* two files, the bundle of the first file with the other as auxiliary file.
BundlesToValidate ==
    (IF model_groups # <<>> THEN {model_groups[1]} ELSE {})
    \cup (IF Len(uploaded_files) \in 1..2
          THEN {ModelFiles(uploaded_files[1].filepath,
                           Paths(Tail(uploaded_files)), <<>>,
                           TypeOfPrimary(uploaded_files[1].extension))}
          ELSE {})

\* The files that may be gone when validate_model_files looks: none for the
\* larger uploads, any of the bundle's files for the small ones.
MissingSets(bundle) ==
    IF Len(uploaded_files) \in 1..2
    THEN SUBSET ({bundle.primary_file} \cup SeqToSet(bundle.secondary_files))
    ELSE {{}}

\* ModelFileAnalyzer.analyze_uploaded_files
analyze_uploaded_files ==
    /\ analyzer_pc = "uploaded"
    /\ model_groups' = _group_model_files(uploaded_files)
    /\ analyzer_pc' = "grouped"
    /\ UNCHANGED <<scheduler_vars, api_vars, uploaded_files, validation>>

\* A call of ModelFileAnalyzer.validate_model_files.
Validate ==
    /\ analyzer_pc = "grouped"
    /\ \E bundle \in BundlesToValidate :
          \E missing \in MissingSets(bundle) :
              validation' =
                  [bundle |-> bundle, missing |-> missing,
                   ok |-> validate_model_files(bundle, missing).ok,
                   reason |-> validate_model_files(bundle, missing).value]
    /\ analyzer_pc' = "validated"
    /\ UNCHANGED <<scheduler_vars, api_vars, uploaded_files, model_groups>>

\* One upload handed to the analyzer, the task manager idle.
InitAnalyzer ==
    /\ SchedulerStarted({DefaultOutputFolder}, {NoFault}, {{}})
    /\ max_workers = 1
    /\ uploaded_files \in Uploads
    /\ model_groups = <<>>
    /\ validation = NoValidation
    /\ analyzer_pc = "uploaded"

NextAnalyzer ==
    \/ analyze_uploaded_files
    \/ Validate

SpecAnalyzer == InitAnalyzer /\ [][NextAnalyzer]_vars

\* ---------------------------------------------------- server/api_server.py

\* ServerConfig.allowed_extensions
allowed_extensions ==
    {".onnx", ".tflite", ".prototxt", ".caffemodel", ".pytorch", ".pth",
     ".pt", ".pb", ".ckpt", ".meta", ".data", ".index", ".cfg", ".weights",
     ".darknet", ".data-00000-of-00001"}

\* The declared parameters of RKNNConverterConfig that are followed (one of
\* each of the three groups), and the methods of the class.
ConfigParams == {"target_platform", "do_quantization", "input_size_list"}

ConfigMethods == {"config", "build_config", "torch_config", "update_config"}

\* The value of a method attribute that has not been overwritten.
BoundMethod == "<bound method>"

\* RKNNConverterConfig(): the attributes of a new object, by name.
RKNNConverterConfig ==
    [a \in ConfigParams \cup ConfigMethods |->
        CASE a = "target_platform" -> "rk3588"
          [] a = "do_quantization" -> "True"
          [] a = "input_size_list" -> "[[1, 3, 224, 224]]"
          [] OTHER -> BoundMethod]

\* RKNNConverterConfig.update_config: every key of the payload for which
\* hasattr(self, key) holds is set with setattr; hasattr holds for the
\* parameters and for the methods alike.
update_config(self, config) ==
    [a \in DOMAIN self |-> IF a \in DOMAIN config THEN config[a] ELSE self[a]]

\* Calling config(), build_config() or torch_config() on the object works
\* when the attribute is still the method.
Callable(self, method) == self[method] = BoundMethod

\* The JSON objects tried as configuration payloads.
ConfigPayloads ==
    {("target_platform" :> "rk3566"),
     ("foo" :> "1"),
     ("target_platform" :> "rk3566") @@ ("foo" :> "1"),
     ("build_config" :> "{}")}

\* The "config" form field: absent, a text that is not JSON, a JSON list, or
\* a JSON object.
ConfigFields ==
    {[kind |-> k, items |-> <<>>] : k \in {"absent", "not_json", "list"}}
    \cup {[kind |-> "object", items |-> c] : c \in ConfigPayloads}

\* upload_and_create_task, the "config" field: config_data is {} without the
\* field and when json.loads raises JSONDecodeError, the parsed value
\* otherwise (mapping tells whether it is a dict).
config_data(field) ==
    IF field.kind = "absent" \/ field.kind = "not_json"
    THEN [mapping |-> TRUE, items |-> <<>>]
    ELSE [mapping |-> field.kind = "object", items |-> field.items]

\* upload_and_create_task, "Create conversion config": update_config on a
\* new object; when it raises (the payload has no items()), a new object.
config_of(data) ==
    IF data.mapping
    THEN update_config(RKNNConverterConfig, data.items)
    ELSE RKNNConverterConfig

\* create_task: RKNNConverterConfig(**config_data); a key that is not a
\* declared parameter raises TypeError and the default object is used.
config_from_kwargs(items) ==
    IF DOMAIN items \subseteq ConfigParams
    THEN update_config(RKNNConverterConfig, items)
    ELSE RKNNConverterConfig

DigitChars == <<"0", "1", "2", "3", "4", "5", "6", "7", "8", "9">>

DigitValue(c) == (CHOOSE i \in 1..Len(DigitChars) : DigitChars[i] = c) - 1

RECURSIVE Decimal(_)
Decimal(text) ==
    IF text = <<>> THEN 0
    ELSE 10 * Decimal(SubSeq(text, 1, Len(text) - 1))
             + DigitValue(text[Len(text)])

\* int(task_data.get("priority", 0)): 0 without the field, the number a text
\* of digits denotes, ValueError for any other text.
int(text) ==
    IF text = None THEN Returned(TRUE, 0)
    ELSE IF \A i \in 1..Len(text) : text[i] \in SeqToSet(DigitChars)
    THEN Returned(TRUE, Decimal(text))
    ELSE Raised(<<"invalid literal for int() with base 10">>)

\* The dataclass ConversionTask: its fields, and those without a default.
ConversionTaskFields ==
    {"task_id", "model_files", "config", "output_path", "callback_url",
     "priority", "metadata"}

ConversionTaskRequired == {"task_id", "model_files", "config"}

\* ConversionTask(**kwargs): TypeError for a keyword that is not a field and
\* for a missing required field.
ConversionTask(kwargs) ==
    IF kwargs \subseteq ConversionTaskFields
          /\ ConversionTaskRequired \subseteq kwargs
    THEN Returned(TRUE, None)
    ELSE Raised(<<"TypeError">>)

\* web.json_response({"error": ...}, status=...)
JsonError(status, error) ==
    [status |-> status, error |-> error, task_id |-> NoJob,
     output_path |-> None, file |-> None]

\* web.json_response({"task_id": ..., "status": "created", ...})
Created(id, output_path) ==
    [status |-> 200, error |-> <<>>, task_id |-> id,
     output_path |-> output_path, file |-> None]

\* web.FileResponse(path=...)
FileResponse(path) ==
    [status |-> 200, error |-> <<>>, task_id |-> NoJob, output_path |-> None,
     file |-> path]

\* An upload of a single-file model, a Darknet pair and another single-file
\* model, in that order.
MixedUpload ==
    <<FileInfo("p09", <<"x">>, ".onnx"),
      FileInfo("p11", <<"y">>, ".cfg"),
      FileInfo("p12", <<"y">>, ".weights"),
      FileInfo("p24", <<"w">>, ".onnx")>>

\* The file lists of the upload requests tried.
RequestUploads ==
    {<<>>,
     <<FileInfo("p09", <<"x">>, ".onnx")>>,
     <<FileInfo("p01", <<"n", "e", "t">>, ".prototxt")>>,
     <<FileInfo("p01", <<"n", "e", "t">>, ".prototxt"),
       FileInfo("p02", <<"n", "e", "t">>, ".caffemodel")>>,
     <<FileInfo("p01", <<"n", "e", "t">>, ".prototxt"),
       FileInfo("p09", <<"x">>, ".onnx")>>,
     <<FileInfo("p10", <<"r">>, ".txt")>>,
     MixedUpload}

\* A POST /api/upload_and_create_task request: whether it is multipart, its
\* files in order, the positions of the files larger than max_file_size and
\* of the saved files that are gone when the analyzer validates, and its
\* form fields (task_id NoJob and priority None when the field is not sent).
UploadRequest(multipart, files, too_large, gone, config, task_id, priority) ==
    [op |-> "upload", multipart |-> multipart, files |-> files,
     too_large |-> too_large, gone |-> gone, config |-> config,
     task_id |-> task_id, priority |-> priority]

\* The task_id and priority fields tried together.
IdAndPriorityFields ==
    {<<NoJob, None>>, <<"t1", None>>, <<NoJob, <<"5">>>>,
     <<NoJob, <<"a", "b", "c">>>>, <<"t1", <<"a", "b", "c">>>>}

UploadRequests ==
    {UploadRequest(TRUE, f, {}, {}, c, ip[1], ip[2]) :
        f \in RequestUploads \ {MixedUpload}, c \in ConfigFields,
        ip \in IdAndPriorityFields}
    \cup {UploadRequest(TRUE, MixedUpload, {}, {},
                        [kind |-> "absent", items |-> <<>>], ip[1], ip[2]) :
             ip \in IdAndPriorityFields}
    \cup {UploadRequest(FALSE, <<>>, {}, {},
                        [kind |-> "absent", items |-> <<>>], NoJob, None),
          UploadRequest(TRUE, <<FileInfo("p09", <<"x">>, ".onnx")>>, {1}, {},
                        [kind |-> "absent", items |-> <<>>], NoJob, None),
          UploadRequest(TRUE, <<FileInfo("p09", <<"x">>, ".onnx")>>, {}, {1},
                        [kind |-> "absent", items |-> <<>>], NoJob, None)}

\* The analysis of the files of every request tried, by file list.
analyzed == [files \in RequestUploads |-> _group_model_files(files)]

\* upload_and_create_task up to "Validate model file integrity": the error
\* answered, or NoReply. The files are read in order, and the first one with
\* an extension that is not allowed, or too large, ends the request.
upload_checks(req) ==
    LET bad == {k \in 1..Len(req.files) :
                   \/ req.files[k].extension \notin allowed_extensions
                   \/ k \in req.too_large}
        groups == analyzed[req.files]
        valid == validate_model_files(groups[1],
                     {req.files[k].filepath : k \in req.gone})
    IN IF ~req.multipart
       THEN JsonError(400, <<"Please use multipart/form-data format to upload files">>)
       ELSE IF bad # {}
       THEN IF req.files[First(bad)].extension \notin allowed_extensions
            THEN JsonError(400, <<"Unsupported file type: ",
                                  req.files[First(bad)].extension>>)
            ELSE JsonError(400, <<"File size exceeds limit: ", "max_file_size">>)
       ELSE IF req.files = <<>>
       THEN JsonError(400, <<"No uploaded files found">>)
       ELSE IF groups = <<>>
       THEN JsonError(400, <<"Cannot identify valid model file format">>)
       ELSE IF ~valid.ok
       THEN JsonError(400, <<"Model file validation failed: ">> \o valid.value)
       ELSE NoReply

\* The checks of every request tried, by request.
upload_checked == [req \in UploadRequests |-> upload_checks(req)]

\* A mutation of add_task_reached: add_task is called before the priority
\* field is converted.
add_task_reached_whatever_priority(req) == TRUE

\* upload_and_create_task, "Create conversion task": task_manager.add_task
\* is called when ConversionTask(...) was built, which takes the priority
\* field through int() (the requests tried send no metadata field, which is
\* parsed in the same call).
add_task_reached(req) ==
    /\ ~int(req.priority).raised
    /\ ~ConversionTask({"task_id", "model_files", "config", "callback_url",
                        "priority", "metadata"}).raised

\* The handler of POST /api/upload_and_create_task for the request req; id is
\* the task_id field, or the uuid4 drawn without it.
PostUpload(req, id) ==
    LET early == upload_checked[req]
        model_files == analyzed[req.files][1]
        priority == IF int(req.priority).raised THEN 0
                    ELSE int(req.priority).value
        added == early = NoReply /\ add_task_reached(req)
                    /\ add_task_accepts(id)
    IN /\ request' = req
       /\ rknn_config' = IF early = NoReply
                         THEN config_of(config_data(req.config))
                         ELSE NoConfig
       /\ IF added
          THEN /\ tasks' = (id :> NewTaskInfo(id, model_files.primary_file,
                                              priority, NextSeq)) @@ tasks
               /\ queue' = Enqueue(queue, id, tasks')
          ELSE UNCHANGED <<tasks, queue>>
       /\ reply' =
             IF early # NoReply THEN early
             ELSE IF int(req.priority).raised
             THEN JsonError(500, <<"Task creation failed: ">>
                                     \o int(req.priority).value)
             ELSE IF ~add_task_accepts(id)
             THEN JsonError(500, <<"Task creation failed: ", id>>)
             ELSE Created(id, get_output_path(
                                  NewTaskInfo(id, model_files.primary_file,
                                              priority, NextSeq),
                                  output_folder))
       /\ response' = Answer("create", reply'.status = 200)
       /\ UNCHANGED <<analyzer_vars, max_workers, output_folder, slots,
                      stopping, fault, daemon>>

\* Paths for which os.path.exists holds when create_task looks.
ExistingModels == PrimaryFiles

\* A POST /api/tasks request: the JSON body's model_path (None when the key
\* is not there), config and task_id.
CreateRequests ==
    {[op |-> "create", model_path |-> m, config |-> c, task_id |-> i] :
        m \in {None, <<"./uploads", "/", "gone", ".onnx">>}
                  \cup ExistingModels,
        c \in {<<>>, ("target_platform" :> "rk3566"), ("foo" :> "1")},
        i \in {NoJob, "t1"}}

\* The handler of POST /api/tasks, APIServer.create_task.
PostTasks(req, id) ==
    LET task == ConversionTask({"task_id", "model_path", "config",
                                "output_path", "callback_url", "priority",
                                "metadata"})
        built == /\ req.model_path # None
                 /\ req.model_path \in ExistingModels
        added == built /\ ~task.raised /\ add_task_accepts(id)
    IN /\ request' = req
       /\ rknn_config' = IF built THEN config_from_kwargs(req.config)
                         ELSE NoConfig
       /\ IF added
          THEN /\ tasks' = (id :> NewTaskInfo(id, req.model_path, 0, NextSeq))
                               @@ tasks
               /\ queue' = Enqueue(queue, id, tasks')
          ELSE UNCHANGED <<tasks, queue>>
       /\ reply' =
             IF req.model_path = None
             THEN JsonError(400, <<"Missing required field: ", "model_path">>)
             ELSE IF req.model_path \notin ExistingModels
             THEN JsonError(400, <<"Model file does not exist: ">>
                                     \o req.model_path)
             ELSE IF task.raised
             THEN JsonError(500, <<"Task creation failed: ">> \o task.value)
             ELSE IF ~add_task_accepts(id)
             THEN JsonError(500, <<"Task creation failed: ", id>>)
             ELSE Created(id, get_output_path(
                                  NewTaskInfo(id, req.model_path, 0, NextSeq),
                                  output_folder))
       /\ response' = Answer("create", reply'.status = 200)
       /\ UNCHANGED <<analyzer_vars, max_workers, output_folder, slots,
                      stopping, fault, daemon>>

\* A mutation of download_result: the status of the job is not looked at.
download_result_any_status(id, exists) ==
    IF id \notin Tracked
    THEN JsonError(404, <<"Task does not exist: ", id>>)
    ELSE IF tasks[id].result_path = None \/ ~exists
    THEN JsonError(404, <<"Conversion result file does not exist">>)
    ELSE FileResponse(tasks[id].result_path)

\* APIServer.download_result: the answer for the job named id; exists is
\* os.path.exists(task_info.result_path).
download_result(id, exists) ==
    IF id \notin Tracked
    THEN JsonError(404, <<"Task does not exist: ", id>>)
    ELSE IF tasks[id].status # "completed"
    THEN JsonError(400, <<"Task not completed yet, current status: ",
                          tasks[id].status>>)
    ELSE IF tasks[id].result_path = None \/ ~exists
    THEN JsonError(404, <<"Conversion result file does not exist">>)
    ELSE FileResponse(tasks[id].result_path)

\* The handler of GET /api/download/{task_id}.
GetDownload(id, exists) ==
    /\ request' = [op |-> "download", task_id |-> id, exists |-> exists]
    /\ reply' = download_result(id, exists)
    /\ UNCHANGED <<analyzer_vars, scheduler_vars, rknn_config, daemon>>

\* Job t1 while it is running in slot 1.
RunningJob ==
    [NewTaskInfo("t1", CHOOSE f \in PrimaryFiles : TRUE, 0, 1)
        EXCEPT !.status = "running", !.claims = 1]

\* States of the task manager the requests are sent in: nothing tracked, or
\* job t1 pending, cancelled, running, completed, failed, or historical.
ApiLifetimes ==
    LET pending == NewTaskInfo("t1", CHOOSE f \in PrimaryFiles : TRUE, 0, 1)
        held == [FreeSlot EXCEPT !.job = "t1", !.pc = "convert"]
        free == [s \in Slots |-> FreeSlot]
        one(t) == ("t1" :> t)
        state(ts, q, sl) == [tasks |-> ts, queue |-> q, slots |-> sl]
    IN {state(<<>>, <<>>, free),
        state(one(pending), <<"t1">>, free),
        state(one([pending EXCEPT !.status = "cancelled"]), <<"t1">>, free),
        state(one(RunningJob), <<>>, [free EXCEPT ![1] = held]),
        state(ApplyResult(one([RunningJob EXCEPT !.progress = 100]), "t1",
                          Returned(TRUE, _prepare_output_path(RunningJob))),
              <<>>, free),
        state(ApplyResult(one(RunningJob), "t1",
                          convert_prefix("invalid", None)),
              <<>>, free),
        state(ScanHistory(PriorArtifacts, DefaultOutputFolder), <<>>, free)}

\* The API server in one of these states, no request handled yet.
InitApi ==
    /\ max_workers = 1
    /\ output_folder = DefaultOutputFolder
    /\ \E l \in ApiLifetimes :
          /\ tasks = l.tasks
          /\ queue = l.queue
          /\ slots = l.slots
    /\ stopping = FALSE
    /\ response = NoResponse
    /\ fault = [stage |-> "prefix", outcome |-> "invalid", text |-> None]
    /\ uploaded_files = <<>>
    /\ model_groups = <<>>
    /\ validation = NoValidation
    /\ analyzer_pc = "idle"
    /\ request = NoRequest
    /\ reply = NoReply
    /\ rknn_config = NoConfig
    /\ daemon = Serving

NextApi ==
    \/ \E req \in UploadRequests :
          \E id \in (IF req.task_id = NoJob THEN TaskIds \ Tracked
                     ELSE {req.task_id}) : PostUpload(req, id)
    \/ \E req \in CreateRequests :
          \E id \in (IF req.task_id = NoJob THEN TaskIds \ Tracked
                     ELSE {req.task_id}) : PostTasks(req, id)
    \/ \E id \in TaskIds, exists \in BOOLEAN : GetDownload(id, exists)

SpecApi == InitApi /\ [][NextApi]_vars

\* ------------------------------------------------------------------ claims

Running == {id \in Tracked : tasks[id].status = "running"}

QueueIds == {queue[i] : i \in 1..Len(queue)}

\* C1: in every reachable state the number of jobs whose status is Running
\* is at most max_workers, the worker count configured with --workers.
\* (The statement of the claim; the pool never learns max_workers.)
C1_RunningWithinMaxWorkers == Cardinality(Running) <= max_workers

\* C2: cancel(id) on a Pending job answers true and sets the status to
\* Cancelled in the same step, and a Cancelled job stays Cancelled: no slot
\* ever claims it, also when its queue entry reaches a free slot.
C2_CancelPendingIsFinal ==
    [][\A id \in TaskIds :
          /\ (id \in Tracked /\ tasks[id].status = "pending" /\ cancel_task(id))
                => /\ response' = Answer("cancel", TRUE)
                   /\ tasks'[id].status = "cancelled"
          /\ (id \in Tracked /\ tasks[id].status = "cancelled")
                => tasks'[id].status = "cancelled"]_vars

\* A job was cancelled while Pending and a slot has since taken its queue
\* entry without running it.
C2_Witness ==
    \E id \in Tracked :
        /\ tasks[id].status = "cancelled"
        /\ id \notin QueueIds
        /\ response = Answer("cancel", TRUE)
        /\ \E s \in Slots : slots[s].job = NoJob

\* C3: cancel(id) on an unknown id or on a Completed, Failed or Cancelled job
\* answers false (a refusal, not an error) and changes no tracked record.
C3_CancelRefused ==
    [][\A id \in TaskIds :
          ((id \notin Tracked \/ Terminal(tasks[id].status)) /\ cancel_task(id))
              => /\ response' = Answer("cancel", FALSE)
                 /\ UNCHANGED <<tasks, queue, slots>>]_vars

\* Every id is tracked and Cancelled and the last call, a cancel, was
\* refused: its target was a job already Cancelled.
C3_Witness ==
    /\ response = Answer("cancel", FALSE)
    /\ Tracked = TaskIds
    /\ \A id \in Tracked : tasks[id].status = "cancelled"

AllowedTransitions ==
    {<<"pending", "running">>, <<"pending", "cancelled">>,
     <<"running", "completed">>, <<"running", "failed">>}

\* C4: a tracked job stays tracked and its status changes only along
\* Pending->Running, Pending->Cancelled, Running->Completed, Running->Failed;
\* so a Completed, Failed or Cancelled job keeps its status whatever follows
\* (a completion, a late progress report, a cancel, a stop).
C4_TerminalIsFinal ==
    [][\A id \in Tracked :
          /\ id \in DOMAIN tasks'
          /\ tasks'[id].status # tasks[id].status
                => <<tasks[id].status, tasks'[id].status>> \in AllowedTransitions
      ]_vars

\* A job failed by shutdown whose abandoned thread later reported 100.
C4_Witness ==
    \E id \in Tracked :
        /\ tasks[id].status = "failed"
        /\ tasks[id].error_message = ShutdownReason
        /\ tasks[id].progress = 100

\* C5: the job a slot claims is, among the Pending jobs at that moment, the
\* one of highest priority and, within that priority, of earliest arrival.
C5_ClaimsBestPending ==
    [][\A id \in Tracked :
          (tasks[id].status = "pending" /\ tasks'[id].status = "running")
              => \A o \in Tracked \ {id} :
                    (tasks[o].status = "pending" /\ ~tasks[o].is_historical)
                        => Before(tasks[id], tasks[o])]_vars

\* Job A of priority 5, submitted after job B of priority 0, runs while B is
\* still Pending.
C5_Witness ==
    \E a, b \in Tracked :
        /\ tasks[a].status = "running" /\ tasks[a].priority = 5
        /\ tasks[b].status = "pending" /\ tasks[b].priority = 0
        /\ tasks[b].seq < tasks[a].seq

\* C6: a submission whose id is already tracked, live or historical, is
\* answered with an error, adds no record and changes no record; every
\* record is kept under its own id and no id waits in the queue twice.
C6_DuplicateIdRefused ==
    [][/\ \A id \in TaskIds, f \in PrimaryFiles, p \in Priorities :
             (id \in Tracked /\ upload_and_create_task(id, f, p))
                 => /\ response' = Answer("create", FALSE)
                    /\ UNCHANGED <<tasks, queue, slots>>
       /\ \A id \in DOMAIN tasks' : tasks'[id].task_id = id
       /\ Cardinality({queue'[i] : i \in 1..Len(queue')}) = Len(queue')
      ]_vars

\* A submission was refused although stop() has not begun, while the job
\* that holds the id is running: the id was a duplicate.
C6_Witness ==
    /\ response = Answer("create", FALSE)
    /\ ~stopping
    /\ \E id \in Tracked : tasks[id].status = "running"

\* The slots that execute job id (an abandoned execution is no longer the
\* slot's).
Holders(id) == {s \in Slots : slots[s].job = id /\ ~slots[s].abandoned}

\* C7: every job is claimed at most once, a Running job is held by exactly
\* one slot and any other job by none.
C7_OneSlotPerJob ==
    \A id \in Tracked :
        /\ tasks[id].claims <= 1
        /\ Cardinality(Holders(id)) =
              IF tasks[id].status = "running" THEN 1 ELSE 0

\* Both slots execute, each its own job.
C7_Witness ==
    /\ \A s \in Slots : slots[s].job # NoJob /\ ~slots[s].abandoned
    /\ \A s, t \in Slots : s # t => slots[s].job # slots[t].job

\* C8: convert never raises; when the environment struck (refused input, an
\* exception in the preparation, the dispatch or the converter, a converter
\* failure) convert returns (False, message), the job ends Failed with that
\* message, and the slot is free again.
C8_FailureContained ==
    [][\A s \in Slots :
          (SlotFinish(s) /\ ~slots[s].abandoned)
              => /\ ~ConvertResult(s).raised
                 /\ slots[s].struck
                       => /\ ~ConvertResult(s).ok
                          /\ tasks'[slots[s].job].status = "failed"
                          /\ tasks'[slots[s].job].error_message
                                = ConvertResult(s).value
                 /\ ~slots[s].struck => ConvertResult(s).ok
                 /\ slots'[s] = FreeSlot]_vars

\* A job failed by an exception in the output path preparation, its slot
\* free again.
C8_Witness ==
    /\ fault.outcome = "prepare_raises"
    /\ \E id \in Tracked :
          /\ tasks[id].status = "failed"
          /\ tasks[id].error_message
                = <<"Exception occurred during conversion: ", "boom">>
    /\ \A s \in Slots : slots[s] = FreeSlot

\* C9: a job submitted without an explicit output_path that a slot ran to
\* success is Completed with result_path = <output root>/<model>_<id>.rknn,
\* the output root being the configured output folder.
\* (The statement of the claim; the worker derives the path from the default
\* folder.)
C9_ResultPathUnderOutputRoot ==
    \A id \in Tracked :
        (~tasks[id].is_historical /\ tasks[id].status = "completed"
            /\ tasks[id].output_path = None)
            => tasks[id].result_path = get_output_path(tasks[id], output_folder)

\* C10: a historical record is Completed, never changes, is never queued or
\* held by a slot, and a cancel of it is refused.
C10_HistoricalReadOnly ==
    [][\A id \in Tracked :
          tasks[id].is_historical
              => /\ tasks[id].status = "completed"
                 /\ id \in DOMAIN tasks' /\ tasks'[id] = tasks[id]
                 /\ id \notin QueueIds
                 /\ \A s \in Slots : slots[s].job # id
                 /\ cancel_task(id) => response' = Answer("cancel", FALSE)
      ]_vars

\* The record of the prior artifact is listed, and the last call, a cancel,
\* was refused while the only other id was a Pending job (whose cancel would
\* have succeeded): the cancel was aimed at the historical record.
C10_Witness ==
    /\ \E r \in get_all_tasks :
          r.is_historical /\ r.status = "completed" /\ r.task_id = "t1"
    /\ response = Answer("cancel", FALSE)
    /\ "t2" \in Tracked /\ tasks["t2"].status = "pending"

\* C11: a cancel of a Running job does not preempt it: the step changes no
\* record and no slot; a Running job never becomes Cancelled; it stops being
\* Running only when the slot that holds it takes back the executor's result
\* (and is then Completed or Failed), or when stop() abandons it.
C11_CancelRunningNoPreempt ==
    [][\A id \in Tracked :
          tasks[id].status = "running"
              => /\ cancel_task(id) => UNCHANGED <<tasks, queue, slots>>
                 /\ tasks'[id].status \in {"running", "completed", "failed"}
                 /\ tasks'[id].status # "running"
                       => \/ Stop
                          \/ \E s \in Slots :
                                slots[s].job = id /\ SlotFinish(s)]_vars

\* The last call was a cancel that was accepted, no job is Cancelled and the
\* only live job is Completed: the cancel was aimed at it while it ran.
C11_Witness ==
    /\ response = Answer("cancel", TRUE)
    /\ Tracked = TaskIds
    /\ \E id \in Tracked : tasks[id].is_historical
    /\ \E id \in Tracked :
          ~tasks[id].is_historical /\ tasks[id].status = "completed"

C13_PendingUntilClaimed ==
    \A id \in Tracked :
        (~tasks[id].is_historical /\ tasks[id].claims = 0
            /\ tasks[id].status # "cancelled")
            => /\ tasks[id].status = "pending"
               /\ tasks[id].progress = 0
               /\ tasks[id].result_path = None
               /\ tasks[id].error_message = None
               /\ id \in QueueIds

\* A job still Pending and unclaimed while the other job runs and has
\* reported progress, with a slot free to claim it.
C13_Witness ==
    /\ \E id \in Tracked : tasks[id].status = "pending" /\ tasks[id].claims = 0
    /\ \E id \in Tracked : tasks[id].status = "running" /\ tasks[id].progress = 60
    /\ \E s \in Slots : slots[s].job = NoJob

\* C14: a Completed job has a non-empty result_path and a Failed job a
\* non-empty error_message.
\* (The statement of the claim; _convert_sync returns str(error) bare, which
\* is empty for an exception raised without arguments.)
C14_TerminalCarriesOutcome ==
    \A id \in Tracked :
        /\ tasks[id].status = "completed" => tasks[id].result_path # None
        /\ tasks[id].status = "failed" => tasks[id].error_message # None

\* The analysis of the upload has been made.
Analyzed == analyzer_pc \in {"grouped", "validated"}

Groups == SeqToSet(model_groups)

\* The filepaths a group holds.
GroupPaths(g) ==
    {g.primary_file} \cup SeqToSet(g.secondary_files)
        \cup SeqToSet(g.additional_files)

ExtensionsOf(fs) == {fs[i].extension : i \in 1..Len(fs)}

\* C15: for exactly one .pb, one .index and one .data-00000-of-00001 file,
\* in any order, the analysis returns exactly one group, of the TensorFlow
\* kind, with the .pb file as primary.
C15_ThreeFileTensorFlow ==
    (/\ Analyzed
     /\ Len(uploaded_files) = 3
     /\ ExtensionsOf(uploaded_files)
           = {".pb", ".index", ".data-00000-of-00001"})
        => /\ Len(model_groups) = 1
           /\ model_groups[1].model_type = "tensorflow"
           /\ model_groups[1].primary_file[2] = ".pb"
           /\ GroupPaths(model_groups[1]) = SeqToSet(Paths(uploaded_files))

\* The three files uploaded with the .pb file last, and one group returned.
C15_Witness ==
    /\ Analyzed
    /\ Len(uploaded_files) = 3
    /\ uploaded_files[1].extension = ".data-00000-of-00001"
    /\ uploaded_files[2].extension = ".index"
    /\ uploaded_files[3].extension = ".pb"
    /\ Len(model_groups) = 1

\* C16: whatever else is uploaded, a .prototxt and a .caffemodel of the same
\* base name are returned as a Caffe group with the prototxt as primary and
\* the caffemodel among the secondary files.
\* (The statement of the claim; an upload of exactly three files never
\* reaches the pairing.)
C16_ExactNamePaired ==
    Analyzed =>
        \A i, j \in 1..Len(uploaded_files) :
            (/\ uploaded_files[i].extension = ".prototxt"
             /\ uploaded_files[j].extension = ".caffemodel"
             /\ uploaded_files[i].name = uploaded_files[j].name)
                => \E g \in Groups :
                      /\ g.model_type = "caffe"
                      /\ g.primary_file = uploaded_files[i].filepath
                      /\ uploaded_files[j].filepath
                            \in SeqToSet(g.secondary_files)

\* Two names share a substring of at least 3 characters.
SharesSubstring3(a, b) ==
    \E i \in 0..(Len(a) - 3) : IsSubstr(SubSeq(a, i + 1, i + 3), b)

\* The .caffemodel files of the upload (all unused when the only .prototxt
\* of the pool is looked at).
Caffemodels ==
    {i \in 1..Len(uploaded_files) :
        uploaded_files[i].extension = ".caffemodel"}

HasExactCaffemodel(i) ==
    \E j \in Caffemodels : uploaded_files[j].name = uploaded_files[i].name

\* C17: a .prototxt without an identically named .caffemodel, when some
\* .caffemodel shares a substring of 3 characters with it, is returned in a
\* Caffe group with such a caffemodel.
\* (The statement of the claim; fails for uploads of exactly three files.)
C17_FuzzyPaired ==
    Analyzed =>
        \A i \in 1..Len(uploaded_files) :
            (/\ uploaded_files[i].extension = ".prototxt"
             /\ ~HasExactCaffemodel(i)
             /\ \E j \in Caffemodels :
                   SharesSubstring3(lower(uploaded_files[i].name),
                                    lower(uploaded_files[j].name)))
                => \E g \in Groups :
                      /\ g.model_type = "caffe"
                      /\ g.primary_file = uploaded_files[i].filepath
                      /\ \E j \in Caffemodels :
                            /\ SharesSubstring3(lower(uploaded_files[i].name),
                                                lower(uploaded_files[j].name))
                            /\ uploaded_files[j].filepath
                                  \in SeqToSet(g.secondary_files)

\* No .caffemodel of the upload matches the prototxt by name, keyword,
\* containment or shared substring.
NoNameMatch(i) ==
    /\ ~HasExactCaffemodel(i)
    /\ \A j \in Caffemodels :
          LET a == lower(uploaded_files[i].name)
              b == lower(uploaded_files[j].name)
          IN ~(_has_common_keywords(a, b) \/ IsSubstr(a, b) \/ IsSubstr(b, a))

\* C18: a .prototxt that no .caffemodel matches by name is in a group
\* exactly when one .caffemodel is left.
\* (The statement of the claim; fails for uploads of exactly three files.)
C18_EliminationExactlyOne ==
    Analyzed =>
        \A i \in 1..Len(uploaded_files) :
            (uploaded_files[i].extension = ".prototxt" /\ NoNameMatch(i))
                => ((\E g \in Groups :
                        uploaded_files[i].filepath \in GroupPaths(g))
                    <=> Cardinality(Caffemodels) = 1)

\* C19: every uploaded file of a single-file kind is returned as its own
\* one-file group of that kind, and no group holds a file that matches no
\* rule.
\* (The statement of the claim; fails for uploads of exactly three files.)
C19_SingleFilesBundled ==
    Analyzed =>
        /\ \A i \in 1..Len(uploaded_files) :
              _identify_single_file_type(uploaded_files[i].extension)
                    # "unknown"
                 => \E g \in Groups :
                       g = ModelFiles(uploaded_files[i].filepath, <<>>, <<>>,
                              _identify_single_file_type(
                                  uploaded_files[i].extension))
        /\ \A g \in Groups : \A q \in GroupPaths(g) : q[2] # ".txt"

\* The bundle has an auxiliary file of the extension, in either case.
HasSecondary(bundle, extension) ==
    \E q \in SeqToSet(bundle.secondary_files) : lower_ext(q[2]) = extension

\* C20: validate rejects a Caffe bundle with a .prototxt primary and no
\* .caffemodel, and a Darknet bundle with a .cfg primary and no .weights;
\* when the bundle's files exist the reason names the missing kind; it
\* answers (true, empty) when all files exist and the required auxiliary
\* file is there.
C20_ValidateRequiredSecondary ==
    analyzer_pc = "validated" =>
        LET b == validation.bundle
            caffe_short == /\ b.model_type = "caffe"
                           /\ lower_ext(b.primary_file[2]) = ".prototxt"
                           /\ ~HasSecondary(b, ".caffemodel")
            darknet_short == /\ b.model_type = "darknet"
                             /\ lower_ext(b.primary_file[2]) = ".cfg"
                             /\ ~HasSecondary(b, ".weights")
        IN /\ caffe_short =>
                 /\ ~validation.ok /\ validation.reason # <<>>
                 /\ validation.missing = {}
                       => ".caffemodel" \in SeqToSet(validation.reason)
           /\ darknet_short =>
                 /\ ~validation.ok /\ validation.reason # <<>>
                 /\ validation.missing = {}
                       => ".weights" \in SeqToSet(validation.reason)
           /\ (validation.missing = {} /\ ~caffe_short /\ ~darknet_short)
                 => validation.ok /\ validation.reason = <<>>

\* C27: an upload of exactly three files whose extensions are not exactly
\* .pb, .index and .data-00000-of-00001 is analysed as the general pass
\* (pairing, grouping, single files) analyses it.
C27_ThreeFilesFallThrough ==
    (/\ Analyzed
     /\ Len(uploaded_files) = 3
     /\ ExtensionsOf(uploaded_files)
           # {".pb", ".index", ".data-00000-of-00001"})
        => model_groups = GeneralPass(uploaded_files)

\* Two names hold the same keyword of the vocabulary.
KeywordShared(a, b) ==
    \E keyword \in Keywords : IsSubstr(keyword, a) /\ IsSubstr(keyword, b)

Prototxts ==
    {i \in 1..Len(uploaded_files) : uploaded_files[i].extension = ".prototxt"}

\* C28: the only .prototxt of an upload, when no .caffemodel has its name
\* and some .caffemodel shares a vocabulary keyword with it, is grouped with
\* a .caffemodel that shares a keyword with it, whatever the order of the
\* files and whatever other .caffemodel satisfies a later strategy.
\* (Uploads of exactly three files are left out: they never reach the
\* pairing.)
C28_KeywordBeforeLaterStrategy ==
    (Analyzed /\ Len(uploaded_files) # 3 /\ Cardinality(Prototxts) = 1) =>
        \A i \in Prototxts :
            (/\ ~HasExactCaffemodel(i)
             /\ \E j \in Caffemodels :
                   KeywordShared(lower(uploaded_files[i].name),
                                 lower(uploaded_files[j].name)))
                => \E g \in Groups :
                      /\ g.primary_file = uploaded_files[i].filepath
                      /\ g.secondary_files # <<>>
                      /\ \A q \in SeqToSet(g.secondary_files) :
                            \E j \in Caffemodels :
                               /\ uploaded_files[j].filepath = q
                               /\ KeywordShared(lower(uploaded_files[i].name),
                                                lower(uploaded_files[j].name))

\* The uploaded files of the checkpoint family.
Family == {i \in 1..Len(uploaded_files) : matches_pattern(uploaded_files[i])}

\* The files of the family with the normalized base name of file i.
Cluster(i) ==
    {j \in Family : _extract_base_name(uploaded_files[j])
                        = _extract_base_name(uploaded_files[i])}

ClusterPaths(i) == {uploaded_files[j].filepath : j \in Cluster(i)}

\* C29: in an upload without a .prototxt (every file is unused when the
\* grouping starts), every cluster of at least 2 files of the checkpoint
\* family is returned as exactly one group, whose primary is a .meta or .pb
\* file of the cluster and whose secondary files are all the other files of
\* the cluster; the file of a smaller cluster is in no TensorFlow group.
\* (Uploads of exactly three files are left out: they never reach the
\* grouping.)
C29_ClustersBundled ==
    (Analyzed /\ Len(uploaded_files) # 3 /\ Prototxts = {}) =>
        \A i \in Family :
            IF Cardinality(Cluster(i)) >= 2
            THEN /\ Cardinality({k \in 1..Len(model_groups) :
                        model_groups[k].primary_file \in ClusterPaths(i)}) = 1
                 /\ \E g \in Groups :
                       /\ g.primary_file \in ClusterPaths(i)
                       /\ g.primary_file[2] \in {".meta", ".pb"}
                       /\ SeqToSet(g.secondary_files)
                             = ClusterPaths(i) \ {g.primary_file}
            ELSE \A g \in Groups :
                    g.model_type = "tensorflow"
                       => uploaded_files[i].filepath \notin GroupPaths(g)

\* C30: the groups of an analysis are disjoint: no filepath is in two groups
\* or twice in one group (as primary, secondary or additional file), and
\* every filepath of a group is the path of an uploaded file.
C30_GroupsDisjoint ==
    Analyzed =>
        /\ \A k, l \in 1..Len(model_groups) :
              k # l => GroupPaths(model_groups[k])
                          \cap GroupPaths(model_groups[l]) = {}
        /\ \A g \in Groups :
              /\ Cardinality(GroupPaths(g))
                    = 1 + Len(g.secondary_files) + Len(g.additional_files)
              /\ GroupPaths(g) \subseteq SeqToSet(Paths(uploaded_files))

\* Two .prototxt files and one .caffemodel uploaded with a single-file model:
\* one prototxt got the caffemodel, the other is in no group.
C30_Witness ==
    /\ Analyzed
    /\ Len(uploaded_files) = 4
    /\ Cardinality(Prototxts) = 2
    /\ Cardinality(Caffemodels) = 1
    /\ Len(model_groups) = 2
    /\ \E g \in Groups : g.model_type = "caffe" /\ Len(g.secondary_files) = 1
    /\ \E i \in Prototxts :
          \A g \in Groups : uploaded_files[i].filepath \notin GroupPaths(g)

\* The request handled last is an upload whose files passed the checks of
\* the reading loop, so that the analyzer was called with them.
UploadAnalyzed(req) ==
    /\ req.op = "upload"
    /\ req.multipart
    /\ req.files # <<>>
    /\ req.too_large = {}
    /\ \A k \in 1..Len(req.files) :
          req.files[k].extension \in allowed_extensions

\* C21: an upload with a .prototxt and no .caffemodel is answered with an
\* error whose reason names the missing .caffemodel weight file, and no job
\* is created.
C21_MissingCaffemodelRejected ==
    [][(/\ UploadAnalyzed(request')
        /\ ".prototxt" \in ExtensionsOf(request'.files)
        /\ ".caffemodel" \notin ExtensionsOf(request'.files))
          => /\ reply'.status = 400
             /\ ".caffemodel" \in SeqToSet(reply'.error)
             /\ tasks' = tasks]_vars

\* C22: the configuration built from a JSON object has the declared
\* parameters the payload names set to the payload's values, every other
\* attribute as in a new object, and config(), build_config() and
\* torch_config() can still be called.
C22_UpdateConfigWhitelist ==
    (/\ request.op = "upload"
     /\ DOMAIN rknn_config # {}
     /\ request.config.kind = "object")
        => /\ DOMAIN rknn_config = DOMAIN RKNNConverterConfig
           /\ \A a \in DOMAIN rknn_config :
                 rknn_config[a] =
                     IF a \in ConfigParams \cap DOMAIN request.config.items
                     THEN request.config.items[a]
                     ELSE RKNNConverterConfig[a]
           /\ \A method \in {"config", "build_config", "torch_config"} :
                 Callable(rknn_config, method)

\* C23: an upload request answered with an error adds no job, and a step of
\* the upload handler that adds a job adds exactly one, Pending, under the
\* id it answers with status 200.
C23_AdmissionAllOrNothing ==
    [][request'.op = "upload" =>
          /\ reply'.status # 200 => tasks' = tasks /\ queue' = queue
          /\ tasks' # tasks =>
                /\ reply'.status = 200
                /\ reply'.task_id \in TaskIds \ Tracked
                /\ DOMAIN tasks' = Tracked \cup {reply'.task_id}
                /\ tasks'[reply'.task_id].status = "pending"
                /\ \A id \in Tracked : tasks'[id] = tasks[id]]_vars

\* A model file was uploaded with a priority that is not a number: the
\* answer is an error and nothing is tracked.
C23_Witness ==
    /\ request.op = "upload"
    /\ UploadAnalyzed(request)
    /\ request.priority = <<"a", "b", "c">>
    /\ reply.status = 500
    /\ Tracked = {}

\* C24: an upload whose config field is not JSON, or is JSON but not an
\* object, is answered with an error and no job is created.
C24_BadConfigRejected ==
    [][(/\ request'.op = "upload"
        /\ request'.config.kind \in {"not_json", "list"})
          => reply'.status # 200 /\ tasks' = tasks]_vars

\* C25: POST /api/tasks with the path of an existing model file, and an id
\* that is not tracked, admits one job and answers 200 with its task_id and
\* output_path.
C25_CreateTaskAdmits ==
    [][(/\ request'.op = "create"
        /\ request'.model_path \in ExistingModels
        /\ request'.task_id \notin Tracked)
          => /\ reply'.status = 200
             /\ reply'.task_id \in TaskIds \ Tracked
             /\ reply'.output_path # None
             /\ DOMAIN tasks' = Tracked \cup {reply'.task_id}]_vars

\* C26: download_result answers 404 for an id that is not tracked, 400 for a
\* job that is not Completed, 404 for a Completed job whose result file does
\* not exist, and the file at result_path otherwise; it changes nothing in
\* the task manager.
C26_DownloadOnlyCompleted ==
    [][request'.op = "download" =>
          LET id == request'.task_id
              served == /\ id \in Tracked
                        /\ tasks[id].status = "completed"
                        /\ tasks[id].result_path # None
                        /\ request'.exists
          IN /\ UNCHANGED scheduler_vars
             /\ id \notin Tracked => reply'.status = 404
             /\ (id \in Tracked /\ tasks[id].status # "completed")
                   => reply'.status = 400
             /\ (id \in Tracked /\ tasks[id].status = "completed"
                    /\ ~request'.exists) => reply'.status = 404
             /\ served <=> reply'.file # None
             /\ served => /\ reply'.status = 200
                          /\ reply'.file = tasks[id].result_path]_vars

\* The download of a Failed job was refused with 400.
C26_Witness ==
    /\ request.op = "download"
    /\ request.task_id \in Tracked
    /\ tasks[request.task_id].status = "failed"
    /\ reply.status = 400

\* The output_path upload_and_create_task answers for a job: derived with
\* the configured output folder.
CreationOutputPath(id) == get_output_path(tasks[id], output_folder)

\* C34: for a job created without an explicit output_path, the path the
\* worker prepares for the artifact, and the result_path of the job once it
\* is Completed, are the output_path of the creation answer.
C34_AnsweredPathIsWrittenPath ==
    \A id \in Tracked :
        (~tasks[id].is_historical /\ tasks[id].output_path = None)
            => /\ tasks[id].status = "running"
                     => _prepare_output_path(tasks[id]) = CreationOutputPath(id)
               /\ tasks[id].status = "completed"
                     => tasks[id].result_path = CreationOutputPath(id)

\* The progress values _convert_sync and RKNNConverter.convert report.
ProgressValues == {0, 10, 30, 60, 90, 100}

Chars(tok) ==
    CASE tok = "a_b" -> <<"a", "_", "b">>
      [] tok = "b_c" -> <<"b", "_", "c">>
      [] OTHER -> <<tok>>

\* The text of a path: the characters of its parts, one after the other, as
\* the f-string and os.path.join of get_output_path produce them.
RECURSIVE Text(_)
Text(path) ==
    IF path = <<>> THEN <<>> ELSE Chars(Head(path)) \o Text(Tail(path))

\* ConversionTask objects without an explicit output_path: a model file name
\* and a caller-supplied task id.
NamedTasks ==
    {[task_id |-> id, primary_file |-> <<"./uploads", "/", name, ".onnx">>,
      output_path |-> None] :
        name \in {"a", "a_b", "b"}, id \in {"c", "b_c", "a"}}

\* ConversionTask.get_output_path called on two tasks with the configured
\* output folder; the answer holds the texts of the two paths.
DerivePaths(a, b) ==
    /\ request' = [op |-> "paths", a |-> a, b |-> b]
    /\ reply' = [a |-> Text(get_output_path(a, output_folder)),
                 b |-> Text(get_output_path(b, output_folder))]
    /\ UNCHANGED <<analyzer_vars, scheduler_vars, rknn_config, daemon>>

NextPaths == \E a, b \in NamedTasks : DerivePaths(a, b)

\* Every output folder, nothing tracked.
SpecPaths == Started(OutputFolders, {NoFault}, {{}}) /\ [][NextPaths]_vars

_validate_input(model_path, missing, empty) ==
    /\ model_path \notin missing
    /\ model_path \notin empty
    /\ lower_ext(model_path[Len(model_path)])
          \in {".onnx", ".tflite", ".prototxt", ".pytorch", ".pb", ".pt",
               ".pth", ".darknet"}

\* The first bundle of the analysis has been validated with all its files
\* on disk, as upload_and_create_task does before it builds the job.
FirstBundleValidated ==
    /\ analyzer_pc = "validated"
    /\ model_groups # <<>>
    /\ validation.bundle = model_groups[1]
    /\ validation.missing = {}

\* C32: a bundle that the analysis returned and validate_model_files
\* accepted, its files existing and not empty, passes the worker's
\* _validate_input, whatever its kind: the job built from it is not failed
\* with "Input file validation failed" because of the primary's extension.
C32_AcceptedBundlePassesWorker ==
    (FirstBundleValidated /\ validation.ok)
        => _validate_input(validation.bundle.primary_file,
                           validation.missing, {})

\* C33: the analysis and validate_model_files agree on the kinds of files:
\* a Caffe or Darknet pair returned by the analysis, with its files on
\* disk, is accepted by validate_model_files, also when the files were sent
\* under names with upper-case extensions.
C33_PairedBundleAccepted ==
    (/\ FirstBundleValidated
     /\ validation.bundle.model_type \in {"caffe", "darknet"}
     /\ validation.bundle.secondary_files # <<>>)
        => validation.ok

\* The place of a bundle's kind in the order of _group_model_files: Caffe
\* pairs, TensorFlow groups, Darknet pairs, then the single-file kinds.
KindRank(g) ==
    CASE g.model_type = "caffe" -> 1
      [] g.model_type = "tensorflow" -> 2
      [] g.model_type = "darknet" -> 3
      [] OTHER -> 4

\* The position in the upload of the primary file of a bundle.
UploadPosition(files, g) ==
    CHOOSE k \in 1..Len(files) : files[k].filepath = g.primary_file

\* The bundles are in the order of the kinds, and the single-file bundles
\* in the order their files were uploaded in.
BundlesOrdered(files, groups) ==
    \A i, j \in 1..Len(groups) :
        i < j =>
            /\ KindRank(groups[i]) <= KindRank(groups[j])
            /\ KindRank(groups[i]) = 4
                  => UploadPosition(files, groups[i])
                         < UploadPosition(files, groups[j])

\* C36: an upload_and_create_task request answered 200 has added exactly
\* one job, whose primary file is that of the first bundle of the analysis,
\* and has left every other job as it was; the bundles of the analysis are
\* ordered multi-file kinds first (Caffe, TensorFlow, Darknet), single files
\* last in upload order.
C36_OneJobFromFirstBundle ==
    [][(request'.op = "upload" /\ reply'.status = 200)
          => LET groups == analyzed[request'.files]
             IN /\ groups # <<>>
                /\ BundlesOrdered(request'.files, groups)
                /\ reply'.task_id \notin Tracked
                /\ DOMAIN tasks' = Tracked \cup {reply'.task_id}
                /\ \A id \in Tracked : tasks'[id] = tasks[id]
                /\ tasks'[reply'.task_id].primary_file
                       = groups[1].primary_file]_vars

\* An upload of a single-file model followed by a Darknet pair and another
\* single-file model was answered 200: the job is that of the pair.
C36_Witness ==
    /\ request.op = "upload"
    /\ reply.status = 200
    /\ Len(analyzed[request.files]) = 3
    /\ reply.task_id \in Tracked
    /\ tasks[reply.task_id].primary_file = request.files[2].filepath

\* main() has configured the daemon from the command line; nothing is
\* started yet.
InitDaemon ==
    /\ max_workers \in WorkersArgs
    /\ output_folder \in OutputFolders
    /\ tasks = <<>>
    /\ queue = <<>>
    /\ slots = [s \in Slots |-> FreeSlot]
    /\ stopping = FALSE
    /\ response = NoResponse
    /\ fault = NoFault
    /\ uploaded_files = <<>>
    /\ model_groups = <<>>
    /\ validation = NoValidation
    /\ analyzer_pc = "idle"
    /\ request = NoRequest
    /\ reply = NoReply
    /\ rknn_config = NoConfig
    /\ daemon = NewDaemon

NextDaemon ==
    \/ DaemonStart
    \/ ServerFails
    \/ ServerUp
    \/ \E sig \in Signals : Signal(sig)
    \/ \E sig \in Signals : StopTaskRun(sig)
    \/ \E sig \in Signals : StopTaskFinish(sig)
    \/ MainWake
    \/ LoopShutdown

SpecDaemon == InitDaemon /\ [][NextDaemon]_vars

\* C37: when start() failed after APIServer.start had started the task
\* manager, APIServer.stop (and with it task_manager.stop) has been called
\* by the time the process exits.
C37_FailedStartStopsTaskManager ==
    (/\ daemon.main = "exited"
     /\ daemon.start_failed
     /\ daemon.task_manager # "idle")
        => daemon.api_stops >= 1

\* C38: when main() has returned after a signal and the loop is closed, the
\* stop begun by the signal handler's task has run to its end (no such task
\* was cancelled inside APIServer.stop), and APIServer.stop was called
\* exactly once.
C38_SignalStopCompletes ==
    (/\ daemon.main = "exited"
     /\ ~daemon.start_failed)
        => /\ \A sig \in Signals : daemon.stops[sig] # "cancelled"
           /\ daemon.api_stops = 1

====
